---- MODULE Spec2Model ----
(***************************************************************************)
(* Furniverse: the multimodal indexing pipeline (Pipeline/indexing) and    *)
(* the tiered retrieval / compromise engine (Backend/main.py,              *)
(* Backend/embedding_tradeoff.py), modelled as state machines over one     *)
(* vector index.                                                           *)
(*                                                                         *)
(* Conventions of the model:                                               *)
(*   - a text field is the set of vocabulary keywords that occur in it     *)
(*     (the code only ever tests `keyword in text`); a description keeps   *)
(*     three segments so that the [:100] and [:500] truncations act;       *)
(*   - similarities are integers in hundredths (67 is 0.67);               *)
(*   - prices and budgets are whole dollars;                               *)
(*   - compromise scores are integers in hundredths of a point;            *)
(*   - a generated sentence is a record naming its template and holes.     *)
(***************************************************************************)
EXTENDS Integers, Sequences, FiniteSets, TLC

VARIABLES
    index,      \* the products collection: point id -> [vector, payload]
    server,     \* the API process: clients initialised, its string-hash seed,
                \* the index reachable, the trade-off system initialised
    request,    \* the request of the last handled call (or NoRequest)
    response,   \* what the handler returned for it (or NoResponse)
    searchLog,  \* the searches the handler made, in call order
    run,        \* the index_products run in progress (or the idle record)
    history,    \* per finished or aborted run: what it wrote and how it ended
    extraction, \* the last extract_preferences call: its inputs and result
    user_activities_cache,  \* the API process's module-level event lists
    users,      \* the users collection: point id -> [vector, payload]
    clock,      \* datetime.now(), in ticks
    calls       \* per worker thread: the track_event call it is executing

\* what the activity tracker reads and writes
tracking == <<user_activities_cache, users, clock, calls>>

vars == <<index, server, request, response, searchLog, run, history, extraction,
          user_activities_cache, users, clock, calls>>

(***************************************************************************)
(* Bounds of the model                                                     *)
(***************************************************************************)
NumProducts == 7      \* catalog size
MaxSeed == 1          \* string-hash seeds 0..MaxSeed a process may draw
MaxEvents == 3        \* tracked events a process handles

(***************************************************************************)
(* Program constants                                                       *)
(***************************************************************************)
THRESHOLD_MINIMUM == 67        \* smart_recommend score_threshold 0.67
SmartSearchLimit == 50         \* smart_recommend search limit
PerfectCap == 10               \* perfect_matches[:10]
AlternativesCap == 5           \* alternatives[:5]
OverBudgetCap == 5             \* over_budget_options[:5]
SimilarityWeight == 50         \* compromise_score += similarity * 50

None == -1                     \* Python None for an absent number

(***************************************************************************)
(* Generic helpers                                                         *)
(***************************************************************************)
Max(a, b) == IF a >= b THEN a ELSE b
Min(a, b) == IF a <= b THEN a ELSE b
Abs(x) == IF x < 0 THEN -x ELSE x
Range(s) == {s[i] : i \in DOMAIN s}
Take(s, n) == SubSeq(s, 1, Min(n, Len(s)))

\* round-half-to-even of num/den for num >= 0, den > 0: Python's ":.0f"
\* and round() on the exactly representable cases
RoundDiv(num, den) ==
    LET q == num \div den
        r == num % den
    IN  IF 2 * r < den THEN q
        ELSE IF 2 * r > den THEN q + 1
        ELSE IF q % 2 = 0 THEN q ELSE q + 1

RECURSIVE InsertDesc(_, _, _)
\* insert index i after every index whose key is >= key[i]
InsertDesc(i, idxs, key) ==
    IF idxs = <<>> THEN <<i>>
    ELSE IF key[Head(idxs)] >= key[i] THEN <<Head(idxs)>> \o InsertDesc(i, Tail(idxs), key)
    ELSE <<i>> \o idxs

RECURSIVE SortedIndices(_, _)
\* the indices 1..n in descending key order, equal keys in index order
SortedIndices(n, key) ==
    IF n = 0 THEN <<>> ELSE InsertDesc(n, SortedIndices(n - 1, key), key)

\* list.sort(key=..., reverse=True) and sorted(..., reverse=True): descending
\* by key, stable; key is the sequence of the elements' keys
SortDesc(s, key) ==
    LET idxs == SortedIndices(Len(s), key)
    IN  [j \in 1..Len(s) |-> s[idxs[j]]]

RECURSIVE SetToSeq(_)
\* some enumeration of a finite set
SetToSeq(S) ==
    IF S = {} THEN <<>>
    ELSE LET x == CHOOSE y \in S : TRUE IN <<x>> \o SetToSeq(S \ {x})

(***************************************************************************)
(* The catalog (Data/processed/products.json as index_products reads it)   *)
(*                                                                         *)
(* An id is [digits, n]: digits = TRUE is the decimal string of n (what    *)
(* the scraper produces), digits = FALSE a non-numeric string number n.    *)
(* A description is [head, mid, rest]: the keywords in its first 100       *)
(* characters, in characters 100..500, and beyond 500.                     *)
(***************************************************************************)
Spaces == {"text_clip", "image_clip", "color", "graph"}

Desc(head, mid, rest) == [head |-> head, mid |-> mid, rest |-> rest]
DescWords(d) == d.head \cup d.mid \cup d.rest
\* description[:500]
Cut500(d) == [d EXCEPT !.rest = {}]
\* description[:100]
Cut100(d) == [d EXCEPT !.mid = {}, !.rest = {}]

\* the keywords a colour string contains as substrings
ColourWords(c) ==
    CASE c = "dark blue" -> {"blue", "dark blue"}
      [] c = "light gray" -> {"gray"}
      [] OTHER -> {c}

Templates == <<
    [name |-> {"sofa"}, category |-> "sofa", price |-> 949,
     description |-> Desc({"leather", "premium"}, {}, {}),
     colors |-> <<"blue">>, tags |-> {"modern"}, styles |-> <<"modern">>,
     image |-> TRUE],
    [name |-> {"sofa"}, category |-> "sofa", price |-> 550,
     description |-> Desc({}, {"leather"}, {}),
     colors |-> <<"gray">>, tags |-> {}, styles |-> <<>>,
     image |-> TRUE],
    [name |-> {"sofa", "velvet"}, category |-> "sofa", price |-> 600,
     description |-> Desc({"storage"}, {}, {"leather"}),
     colors |-> <<>>, tags |-> {"leather"}, styles |-> <<>>,
     image |-> TRUE],
    [name |-> {"chair"}, category |-> "chair", price |-> 500,
     description |-> Desc({"velvet"}, {}, {}),
     colors |-> <<"dark blue", "gray">>, tags |-> {}, styles |-> <<"modern">>,
     image |-> TRUE],
    [name |-> {"sofa", "sectional"}, category |-> "sofa", price |-> 1200,
     description |-> Desc({"leather", "velvet"}, {}, {}),
     colors |-> <<"light gray">>, tags |-> {"durable"}, styles |-> <<>>,
     image |-> TRUE],
    [name |-> {"sofa"}, category |-> "sofa", price |-> 0,
     description |-> Desc({}, {}, {}),
     colors |-> <<"gray", "blue">>, tags |-> {"velvet"}, styles |-> <<>>,
     image |-> TRUE],
    [name |-> {"leather", "sofa"}, category |-> "sofa", price |-> 599,
     description |-> Desc({}, {}, {}),
     colors |-> <<"white">>, tags |-> {}, styles |-> <<>>,
     image |-> FALSE],
    [name |-> {"sofa"}, category |-> "sofa", price |-> 700,
     description |-> Desc({"leather"}, {"velvet"}, {}),
     colors |-> <<"gray">>, tags |-> {}, styles |-> <<>>,
     image |-> TRUE]
>>

\* the i-th catalog item; every third id is a non-numeric string
Product(i) ==
    LET t == Templates[((i - 1) % Len(Templates)) + 1]
    IN  [id |-> [digits |-> (i % 3 # 0), n |-> 100 + i],
         name |-> t.name, category |-> t.category, price |-> t.price,
         description |-> t.description, colors |-> t.colors, tags |-> t.tags,
         styles |-> t.styles, image |-> t.image]

Catalog == [i \in 1..NumProducts |-> Product(i)]

(***************************************************************************)
(* Points (index_products, step 4)                                         *)
(***************************************************************************)
TextDim == 512
ColorDim == 548
GraphDim == 256

\* a vector: its dimension, whether it is all zeros, and the catalog item
\* it encodes (0 for none)
Vec(dim, item) == [dim |-> dim, zero |-> FALSE, item |-> item]
Zeros(dim) == [dim |-> dim, zero |-> TRUE, item |-> 0]
\* an absent vector (None, or an empty list)
NoVector == [dim |-> 0, zero |-> TRUE, item |-> 0]

\* hash(str(id)) % (2**31) of a non-numeric id: a value below 2^31 that is
\* fixed within one process and depends on the process's hash seed
\* (str hashes are salted per interpreter start)
StrHashMod(n, seed) == 1000000 + ((n * 31 + seed * 7919) % 1000000)

\* int(id) if str(id).isdigit() else hash(str(id)) % (2**31)
PointId(id, seed) == IF id.digits THEN id.n ELSE StrHashMod(id.n, seed)

\* what a pipeline process is started with and what its producers do:
\*   seed   the interpreter's string-hash seed
\*   walks  the random state of Node2Vec's walks and training: the model
\*          is built without a seed and with workers=4, so every run draws
\*          its own
\*   fault  "none", or the one producer that fails in this run: "graph"
\*          (node2vec cannot be imported, compute_node2vec_embeddings
\*          gives {}), or the encoder or extractor that raises for the
\*          first catalog item ("text_clip", "image_clip", "color")
RunConfigs ==
    [seed : 0..MaxSeed, walks : 0..MaxSeed,
     fault : {"none", "graph", "text_clip", "image_clip", "color"}]

Raises(i, space, cfg) == i = 1 /\ cfg.fault = space

\* compute_node2vec_embeddings: one vector per graph node, or {} when the
\* graph is empty or node2vec cannot be imported
GraphEmbeddings(n, cfg) ==
    IF n = 0 \/ cfg.fault = "graph" THEN {} ELSE 1..n

\* extract_product_color_features inside index_products' try/except: a
\* product without image raises ValueError, a failed extraction returns
\* zeros, and either way the stored colour vector is all zeros
ColorFeature(i, product, cfg) ==
    IF ~product.image \/ Raises(i, "color", cfg) THEN Zeros(ColorDim)
    ELSE Vec(ColorDim, i)

ClipText(i, product, cfg) ==
    IF Raises(i, "text_clip", cfg) THEN Zeros(TextDim) ELSE Vec(TextDim, i)

ClipImage(i, product, cfg) ==
    IF ~product.image \/ Raises(i, "image_clip", cfg) THEN Zeros(TextDim)
    ELSE Vec(TextDim, i)

\* model.wv[str(node)]: the node2vec vector of item i, as the run's walks
\* happened to produce it
GraphVec(i, cfg) == [dim |-> GraphDim, zero |-> FALSE, item |-> i, walks |-> cfg.walks]

\* the named vectors of a point: MultimodalIndexer runs with use_clip,
\* use_colors and use_graph all True (main), so text, image and colour are
\* always present and graph only when the embedding table has the item
BuildVectors(i, product, n, cfg) ==
    LET base == [text_clip |-> ClipText(i, product, cfg),
                 image_clip |-> ClipImage(i, product, cfg),
                 color |-> ColorFeature(i, product, cfg)]
    IN  IF i \in GraphEmbeddings(n, cfg)
        THEN [sp \in {"text_clip", "image_clip", "color", "graph"} |->
                 IF sp = "graph" THEN GraphVec(i, cfg) ELSE base[sp]]
        ELSE base

BuildPayload(product) ==
    [product_id |-> product.id, name |-> product.name,
     category |-> product.category, price |-> product.price,
     description |-> Cut500(product.description),
     styles |-> product.styles, colors |-> product.colors,
     tags |-> product.tags]

\* PointStruct(id=product_id_int, vector=vectors, payload=payload) for the
\* i-th of n products
BuildPoint(i, n, cfg) ==
    LET product == Catalog[i]
    IN  [id |-> PointId(product.id, cfg.seed),
         vector |-> BuildVectors(i, product, n, cfg),
         payload |-> BuildPayload(product)]

\* an upsert that replaces the collection by the batch
UpsertReplacingCollection(idx, points) ==
    [id \in {points[j].id : j \in DOMAIN points} |->
        LET j == CHOOSE k \in DOMAIN points :
                     points[k].id = id /\ \A l \in DOMAIN points : points[l].id = id => l <= k
        IN  [vector |-> points[j].vector, payload |-> points[j].payload]]

RECURSIVE Upsert(_, _)
\* client.upsert(points): insert or overwrite by point id, in list order
Upsert(idx, points) ==
    IF points = <<>> THEN idx
    ELSE LET p == Head(points)
             next == [id \in DOMAIN idx \cup {p.id} |->
                         IF id = p.id THEN [vector |-> p.vector, payload |-> p.payload]
                         ELSE idx[id]]
         IN  Upsert(next, Tail(points))

EmptyIndex == [id \in {} |-> 0]

\* the collection after one complete run over the first n catalog items
IndexOf(n, cfg) == Upsert(EmptyIndex, [i \in 1..n |-> BuildPoint(i, n, cfg)])

(***************************************************************************)
(* The vector index's search (qdrant_client.search)                        *)
(***************************************************************************)
RECURSIVE AscendingSeq(_)
\* a finite set of integers as an ascending sequence
AscendingSeq(S) ==
    IF S = {} THEN <<>>
    ELSE LET m == CHOOSE x \in S : \A y \in S : x <= y
         IN  <<m>> \o AscendingSeq(S \ {m})

\* the record of one search call: the space searched, how many hits came back
Searched(space, hits) == [space |-> space, returned |-> Len(hits)]

\* The CLIP encoder, as the similarity (in hundredths) it induces between a
\* query and a catalog item's text; a query carries the name of its profile
Profiles == {"close", "mixed", "floor"}

TextSim(profile, item) ==
    CASE profile = "close" -> 95 - item
      [] profile = "mixed" -> 45 + ((item * 29) % 45)
      [] OTHER -> 67

\* cosine similarity with an all-zero vector is 0
TextScore(profile, vec) == IF vec.zero THEN 0 ELSE TextSim(profile, vec.item)

\* the image encoder against a text query: a different, lower similarity
ImageSim(profile, item) ==
    CASE profile = "close" -> 40 - item
      [] profile = "mixed" -> 10 + ((item * 7) % 25)
      [] OTHER -> 20

ImageScore(profile, vec) == IF vec.zero THEN 0 ELSE ImageSim(profile, vec.item)

\* similarity of two node2vec vectors
GraphSim(a, b) == IF a = b THEN 100 ELSE 90 - 10 * Abs(a - b)

GraphScore(ref, vec) == IF vec.zero \/ ref.zero THEN 0 ELSE GraphSim(ref.item, vec.item)

\* Filter(must=[category == c, price <= ceiling]); a category of "all" and
\* a ceiling that is None or 0 add no condition
FilterPass(category, ceiling, payload) ==
    /\ (category = "all" \/ payload.category = category)
    /\ (~(ceiling # None /\ ceiling # 0) \/ payload.price <= ceiling)

\* the cosine similarity of a query vector and a stored vector of its space
QueryScore(query, vec) ==
    CASE query.space = "text_clip" -> TextScore(query.profile, vec)
      [] query.space = "image_clip" -> ImageScore(query.profile, vec)
      [] query.space = "graph" -> GraphScore(query.ref, vec)

\* search(query_vector=(space, v), limit, query_filter, score_threshold):
\* the points that have a vector in the query's space, pass the filter and
\* score at least the threshold (None: no threshold), best first, at most
\* `limit`; equal scores come back in point-id order.
Search(idx, query, category, ceiling, limit, threshold) ==
    LET space == query.space
        ids == {id \in DOMAIN idx :
                   /\ space \in DOMAIN idx[id].vector
                   /\ FilterPass(category, ceiling, idx[id].payload)
                   /\ (threshold = None \/ QueryScore(query, idx[id].vector[space]) >= threshold)}
        unsorted == AscendingSeq(ids)
        hits == [j \in 1..Len(unsorted) |->
                    [id |-> unsorted[j],
                     score |-> QueryScore(query, idx[unsorted[j]].vector[space]),
                     payload |-> idx[unsorted[j]].payload]]
    IN  Take(SortDesc(hits, [j \in 1..Len(hits) |-> hits[j].score]), limit)

TextQuery(profile) == [space |-> "text_clip", profile |-> profile]
ImageQuery(profile) == [space |-> "image_clip", profile |-> profile]
GraphQuery(ref) == [space |-> "graph", ref |-> ref]

(***************************************************************************)
(* Requests                                                                *)
(*                                                                         *)
(* A query is [phrase, amount, words]: the budget phrase it contains       *)
(* ("none", "under": `under $N`, "budget": `budget of N`), the number N,   *)
(* and the vocabulary keywords that occur in its lower-cased text.         *)
(***************************************************************************)
Query(phrase, amount, words) == [phrase |-> phrase, amount |-> amount, words |-> words]

\* re.search(r'under\s+\$?(\d+)', query_lower): float(group(1)) or None
UnderBudget(query) == IF query.phrase = "under" THEN query.amount ELSE None

\* Python truthiness of an Optional[float]: None and 0.0 are false
Truthy(x) == x # None /\ x # 0

\* [k for k in keywords if k in query_lower]
KeywordsIn(keywords, query) == SelectSeq(keywords, LAMBDA k : k \in query.words)

(***************************************************************************)
(* smart_recommend (Backend/main.py)                                       *)
(***************************************************************************)
color_keywords == <<"blue", "red", "white", "black", "gray", "grey", "green",
                    "yellow", "pink", "purple", "brown", "beige", "orange">>
material_keywords == <<"leather", "velvet", "fabric", "wood", "metal", "cotton",
                       "linen", "suede", "wool">>
style_keywords == <<"modern", "contemporary", "traditional", "rustic",
                    "industrial", "scandinavian", "minimalist", "vintage">>
size_keywords == <<"large", "small", "compact", "spacious", "sectional", "oversized">>
feature_keywords == <<"storage", "adjustable", "convertible", "sleeper",
                      "reclining", "chaise", "comfortable", "comfy">>
quality_indicators == <<"premium", "luxury", "durable", "solid wood", "genuine",
                        "high-quality">>
feature_indicators == <<"storage", "chaise", "sectional", "convertible", "sleeper">>

parse_user_requirements(query) ==
    [budget |-> UnderBudget(query),
     colors |-> KeywordsIn(color_keywords, query),
     materials |-> KeywordsIn(material_keywords, query),
     styles |-> KeywordsIn(style_keywords, query),
     sizes |-> KeywordsIn(size_keywords, query),
     features |-> KeywordsIn(feature_keywords, query)]

\* [f(x) for x in s]
MapSeq(s, F(_)) == [j \in 1..Len(s) |-> F(s[j])]

\* the words of all colour strings of a product
ProductColourWords(colors) == UNION {ColourWords(colors[j]) : j \in DOMAIN colors}

\* [c for c in requested if any(c in pc for pc in product_colors)]
MatchingColors(requested, colors) ==
    SelectSeq(requested, LAMBDA c : c \in ProductColourWords(colors))

\* round(x, 2) of the score a / b given in hundredths, b > 0: half to even
RoundHundredths(a, b) == IF a >= 0 THEN RoundDiv(a, b) ELSE -RoundDiv(-a, b)

\* the budget block with `price_diff < 0` for `price_diff <= 0`
BudgetAnalysisStrict(price, budget) ==
    IF ~Truthy(budget)
    THEN [advantages |-> <<>>, disadvantages |-> <<>>, points |-> 0, overage |-> 0]
    ELSE LET price_diff == price - budget
             under_by == Abs(price_diff)
         IN  IF price_diff < 0
             THEN IF 10 * under_by > budget
                  THEN [advantages |-> <<[kind |-> "under_budget", dollars |-> under_by,
                                          percent |-> RoundDiv(under_by * 100, budget)]>>,
                        disadvantages |-> <<>>, points |-> 10, overage |-> 0]
                  ELSE [advantages |-> <<[kind |-> "within_budget"]>>,
                        disadvantages |-> <<>>, points |-> 15, overage |-> 0]
             ELSE [advantages |-> <<>>,
                   disadvantages |-> <<[kind |-> "over_budget", dollars |-> price_diff,
                                        percent |-> RoundDiv(price_diff * 100, budget)]>>,
                   points |-> 0, overage |-> price_diff]

\* the budget block without the savings sentence: every price at or below
\* the budget is "Within budget"
BudgetAnalysisNoSavings(price, budget) ==
    IF ~Truthy(budget)
    THEN [advantages |-> <<>>, disadvantages |-> <<>>, points |-> 0, overage |-> 0]
    ELSE LET price_diff == price - budget
         IN  IF price_diff <= 0
             THEN [advantages |-> <<[kind |-> "within_budget"]>>,
                   disadvantages |-> <<>>, points |-> 15, overage |-> 0]
             ELSE [advantages |-> <<>>,
                   disadvantages |-> <<[kind |-> "over_budget", dollars |-> price_diff,
                                        percent |-> RoundDiv(price_diff * 100, budget)]>>,
                   points |-> 0, overage |-> price_diff]

\* the "Budget Analysis" block: [advantages, disadvantages, points, penalty]
\* with penalty = [num, den], the part of the score that is price_percent/10
BudgetAnalysis(price, budget) ==
    IF ~Truthy(budget)
    THEN [advantages |-> <<>>, disadvantages |-> <<>>, points |-> 0, overage |-> 0]
    ELSE LET price_diff == price - budget
             under_by == Abs(price_diff)
         IN  IF price_diff <= 0
             THEN IF 10 * under_by > budget
                  THEN [advantages |-> <<[kind |-> "under_budget", dollars |-> under_by,
                                          percent |-> RoundDiv(under_by * 100, budget)]>>,
                        disadvantages |-> <<>>, points |-> 10, overage |-> 0]
                  ELSE [advantages |-> <<[kind |-> "within_budget"]>>,
                        disadvantages |-> <<>>, points |-> 15, overage |-> 0]
             ELSE [advantages |-> <<>>,
                   disadvantages |-> <<[kind |-> "over_budget", dollars |-> price_diff,
                                        percent |-> RoundDiv(price_diff * 100, budget)]>>,
                   points |-> 0, overage |-> price_diff]

\* the "Color Analysis" block
ColorAnalysis(colors, requested) ==
    IF requested = <<>>
    THEN [advantages |-> <<>>, disadvantages |-> <<>>, points |-> 0]
    ELSE LET matching == MatchingColors(requested, colors)
         IN  IF matching # <<>>
             THEN [advantages |-> <<[kind |-> "color_match", colors |-> matching]>>,
                   disadvantages |-> <<>>, points |-> 10 * Len(matching)]
             ELSE IF colors # <<>>
             THEN [advantages |-> <<>>,
                   disadvantages |-> <<[kind |-> "different_color",
                                        colors |-> Take(colors, 2)]>>,
                   points |-> -8]
             ELSE [advantages |-> <<>>,
                   disadvantages |-> <<[kind |-> "color_not_specified"]>>,
                   points |-> -5]

\* `word in product_desc or word in product_name or any(word in tag ...)`
InDescNameTags(word, product) ==
    word \in DescWords(product.description) \cup product.name \cup product.tags

\* the "Material Analysis" block
MaterialAnalysis(product, materials) ==
    LET has == SelectSeq(materials, LAMBDA m : InDescNameTags(m, product))
        lacks == SelectSeq(materials, LAMBDA m : ~InDescNameTags(m, product))
    IN  [advantages |-> MapSeq(has, LAMBDA m : [kind |-> "has_material", word |-> m]),
         disadvantages |-> MapSeq(lacks, LAMBDA m : [kind |-> "missing_material", word |-> m]),
         points |-> 8 * Len(has) - 6 * Len(lacks)]

\* the style, size and feature blocks: advantages only, 5 points each
RequestedExtras(product, reqs) ==
    LET styles == SelectSeq(reqs.styles, LAMBDA w : InDescNameTags(w, product))
        sizes == SelectSeq(reqs.sizes, LAMBDA w :
                     w \in product.name \cup DescWords(product.description))
        features == SelectSeq(reqs.features, LAMBDA w : InDescNameTags(w, product))
    IN  [advantages |->
             MapSeq(styles, LAMBDA w : [kind |-> "style", word |-> w])
             \o MapSeq(sizes, LAMBDA w : [kind |-> "size", word |-> w])
             \o MapSeq(features, LAMBDA w : [kind |-> "feature", word |-> w]),
         points |-> 5 * (Len(styles) + Len(sizes) + Len(features))]

\* the "General product advantages" block
GeneralAdvantages(product, reqs) ==
    LET quality == SelectSeq(quality_indicators, LAMBDA w :
                       w \in DescWords(product.description) \cup product.tags)
        found == SelectSeq(feature_indicators, LAMBDA w :
                     w \in product.name \cup DescWords(product.description))
        extra == found # <<>> /\ \A j \in DOMAIN found : found[j] \notin Range(reqs.features)
    IN  [advantages |->
             (IF quality # <<>> THEN <<[kind |-> "premium_quality", word |-> quality[1]]>>
              ELSE <<>>)
             \o (IF extra THEN <<[kind |-> "extra_features", words |-> Take(found, 2)]>>
                 ELSE <<>>),
         points |-> IF extra THEN 3 ELSE 0]

\* the summary chosen with "Good match" for every list of fewer than two
\* advantages
SummaryWithoutSolidOption(advantages, disadvantages) ==
    IF disadvantages = <<>>
    THEN IF Len(advantages) >= 3
         THEN [template |-> "Perfect match", first |-> advantages[1],
               second |-> advantages[2], more |-> Len(advantages) - 2]
         ELSE IF Len(advantages) = 2
         THEN [template |-> "Great match", first |-> advantages[1],
               second |-> advantages[2]]
         ELSE [template |-> "Good match",
               first |-> IF advantages # <<>> THEN advantages[1]
                         ELSE [kind |-> "matches_your_search_criteria"]]
    ELSE [template |-> "Trade-off",
          first |-> IF advantages # <<>> THEN advantages[1]
                    ELSE [kind |-> "matches_your_search_criteria"],
          but |-> disadvantages[1]]

\* "Generate natural summary"
Summary(advantages, disadvantages) ==
    IF disadvantages = <<>>
    THEN IF Len(advantages) >= 3
         THEN [template |-> "Perfect match", first |-> advantages[1],
               second |-> advantages[2], more |-> Len(advantages) - 2]
         ELSE IF Len(advantages) = 2
         THEN [template |-> "Great match", first |-> advantages[1],
               second |-> advantages[2]]
         ELSE IF Len(advantages) = 1
         THEN [template |-> "Good match", first |-> advantages[1]]
         ELSE [template |-> "Solid option"]
    ELSE [template |-> "Trade-off",
          first |-> IF advantages # <<>> THEN advantages[1]
                    ELSE [kind |-> "matches_your_search"],
          but |-> disadvantages[1]]

\* analyze_compromises(product, user_reqs, similarity_score); the score is
\* round(compromise_score, 2) in hundredths
analyze_compromises(product, user_reqs, similarity_score) ==
    LET b == BudgetAnalysis(product.price, user_reqs.budget)
        c == ColorAnalysis(product.colors, user_reqs.colors)
        m == MaterialAnalysis(product, user_reqs.materials)
        x == RequestedExtras(product, user_reqs)
        g == GeneralAdvantages(product, user_reqs)
        advantages == b.advantages \o c.advantages \o m.advantages
                      \o x.advantages \o g.advantages
        disadvantages == b.disadvantages \o c.disadvantages \o m.disadvantages
        whole == 100 * (b.points + c.points + m.points + x.points + g.points)
                 + SimilarityWeight * similarity_score
        score == IF b.overage = 0 THEN whole
                 ELSE RoundHundredths(whole * user_reqs.budget - 1000 * b.overage,
                                      user_reqs.budget)
    IN  [summary |-> Summary(advantages, disadvantages),
         advantages |-> IF advantages # <<>> THEN advantages
                        ELSE <<[kind |-> "matches_your_search_criteria"]>>,
         disadvantages |-> disadvantages,
         compromise_score |-> score]

\* the product_data dict built for one search result
ProductData(result) ==
    [product_id |-> result.payload.product_id, name |-> result.payload.name,
     category |-> result.payload.category, price |-> result.payload.price,
     score |-> result.score, description |-> Cut100(result.payload.description),
     tags |-> result.payload.tags, colors |-> result.payload.colors]

\* the colour test left out of the categorisation
HasColorMismatchIgnored(payload, user_reqs) == FALSE

\* has_color_mismatch: colours were requested and none matches
HasColorMismatch(payload, user_reqs) ==
    user_reqs.colors # <<>> /\ MatchingColors(user_reqs.colors, payload.colors) = <<>>

\* has_material_mismatch: materials were requested and none occurs in the
\* payload's description
HasMaterialMismatch(payload, user_reqs) ==
    /\ user_reqs.materials # <<>>
    /\ SelectSeq(user_reqs.materials,
                 LAMBDA m : m \in DescWords(payload.description)) = <<>>

\* the tier test with the price comparison reversed
TierOfReversed(result, user_reqs) ==
    IF user_reqs.budget = None \/ result.payload.price >= user_reqs.budget
    THEN IF HasColorMismatch(result.payload, user_reqs)
            \/ HasMaterialMismatch(result.payload, user_reqs)
         THEN "alternatives"
         ELSE "perfect_matches"
    ELSE "over_budget_options"

\* the tier test without `max_price is None or`
TierOfBudgetRequired(result, user_reqs) ==
    IF user_reqs.budget # None /\ result.payload.price <= user_reqs.budget
    THEN IF HasColorMismatch(result.payload, user_reqs)
            \/ HasMaterialMismatch(result.payload, user_reqs)
         THEN "alternatives"
         ELSE "perfect_matches"
    ELSE "over_budget_options"

\* the tier one search result is appended to
TierOf(result, user_reqs) ==
    IF user_reqs.budget = None \/ result.payload.price <= user_reqs.budget
    THEN IF HasColorMismatch(result.payload, user_reqs)
            \/ HasMaterialMismatch(result.payload, user_reqs)
         THEN "alternatives"
         ELSE "perfect_matches"
    ELSE "over_budget_options"

\* one tier before sorting: the results of that tier, in search order, each
\* with its compromise analysis
TierList(all_results, user_reqs, tier) ==
    MapSeq(SelectSeq(all_results, LAMBDA r : TierOf(r, user_reqs) = tier),
           LAMBDA r : [product |-> ProductData(r),
                       compromise |-> analyze_compromises(ProductData(r), user_reqs, r.score)])

\* the tier cut without the sort: the candidates in search order
SortAndLimitUnsorted(tier, cap) == Take(tier, cap)

\* the tier cut before the sort
SortAndLimitCutFirst(tier, cap) ==
    LET cut == Take(tier, cap)
    IN  SortDesc(cut, [j \in 1..Len(cut) |-> cut[j].compromise.compromise_score])

\* tier.sort(key=compromise_score, reverse=True); tier = tier[:cap]
SortAndLimit(tier, cap) ==
    Take(SortDesc(tier, [j \in 1..Len(tier) |-> tier[j].compromise.compromise_score]), cap)

\* "Generate smart explanation"
SmartExplanation(total_perfect, total_alternatives, total_over_budget) ==
    IF total_perfect >= 5
    THEN [text |-> "Found great matches within your budget", perfect |-> total_perfect]
    ELSE IF total_perfect > 0
    THEN [text |-> "Found good matches", perfect |-> total_perfect,
          alternatives |-> total_alternatives, over_budget |-> total_over_budget]
    ELSE IF total_alternatives > 0
    THEN [text |-> "Found alternatives within budget",
          alternatives |-> total_alternatives, over_budget |-> total_over_budget]
    ELSE IF total_over_budget > 0
    THEN [text |-> "Found excellent matches just above your budget",
          over_budget |-> total_over_budget]
    ELSE [text |-> "No products found"]

ServiceUnavailable == [status |-> 503, detail |-> "Service not initialized"]

CategoryPass(category, payload) == category = "all" \/ payload.category = category

\* smart_recommend's search without its score_threshold
SmartCandidatesNoFloor(idx, req) ==
    Search(idx, TextQuery(req.profile), req.category, None, SmartSearchLimit, 0)

\* the candidates of smart_recommend: text_clip search, category filter
\* only, limit 50, score_threshold 0.67
SmartCandidates(idx, req) ==
    Search(idx, TextQuery(req.profile), req.category, None,
           SmartSearchLimit, THRESHOLD_MINIMUM)

\* POST /recommend/smart
smart_recommend(idx, initialised, req) ==
    IF ~initialised THEN [response |-> ServiceUnavailable, searches |-> <<>>]
    ELSE
    LET user_reqs == parse_user_requirements(req.query)
        all_results == SmartCandidates(idx, req)
        perfect_matches ==
            SortAndLimit(TierList(all_results, user_reqs, "perfect_matches"), PerfectCap)
        alternatives ==
            SortAndLimit(TierList(all_results, user_reqs, "alternatives"), AlternativesCap)
        over_budget_options ==
            SortAndLimit(TierList(all_results, user_reqs, "over_budget_options"), OverBudgetCap)
    IN  [response |->
             [status |-> 200,
              user_requirements |-> user_reqs,
              perfect_matches |-> perfect_matches,
              alternatives |-> alternatives,
              over_budget_options |-> over_budget_options,
              strategy |-> "compromise_analysis",
              explanation |-> SmartExplanation(Len(perfect_matches), Len(alternatives),
                                               Len(over_budget_options))],
         searches |-> <<Searched("text_clip", all_results)>>]

(***************************************************************************)
(* EmbeddingAttributeExtractor.extract_preferences                         *)
(* (Backend/embedding_tradeoff.py)                                         *)
(*                                                                         *)
(* sims[a] is the cosine similarity, in hundredths, of the query embedding *)
(* and the canonical embedding of attribute a.                             *)
(***************************************************************************)
Nil == "None"                  \* Python None for an absent string

AcceptFloor == 30              \* `> 0.3`
VariantMargin == 10            \* `variant_score > base_score + 0.1`

BaseMaterials == <<"leather", "velvet", "fabric", "wood", "metal">>
StyleNames == <<"modern", "traditional", "industrial", "minimalist", "scandinavian">>
\* the leather variants that have a canonical embedding: of "pu leather",
\* "genuine leather" and "faux leather" only the first is a key of
\* attribute_embeddings
LeatherVariants == <<"pu leather">>
AttributeNames == Range(BaseMaterials) \cup Range(StyleNames)
                  \cup Range(LeatherVariants) \cup {"comfy"}

RECURSIVE ArgMaxFrom(_, _, _)
\* max(names, key=sims.get): the first name with the largest similarity
ArgMaxFrom(names, sims, best) ==
    IF names = <<>> THEN best
    ELSE ArgMaxFrom(Tail(names), sims,
                    IF sims[Head(names)] > sims[best] THEN Head(names) ELSE best)

ArgMax(names, sims) == ArgMaxFrom(Tail(names), sims, Head(names))

\* the override without its margin
VariantWinsAnyHigher(variant_score, base_score) == variant_score > base_score

\* a variant overrides the accepted base material
VariantWins(variant_score, base_score) == variant_score > base_score + VariantMargin

\* the "Material detection" block: [material, confidence, base_material]
MaterialPreference(sims) ==
    LET top_material == ArgMax(BaseMaterials, sims)
        top_variant == ArgMax(LeatherVariants, sims)
    IN  IF sims[top_material] > AcceptFloor
        THEN IF top_material = "leather" /\ VariantWins(sims[top_variant], sims["leather"])
             THEN [material |-> top_variant, confidence |-> sims[top_variant],
                   base_material |-> "leather"]
             ELSE [material |-> top_material, confidence |-> sims[top_material],
                   base_material |-> Nil]
        ELSE [material |-> Nil, confidence |-> None, base_material |-> Nil]

\* budget_patterns, tried in order: `under N`, `budget [of] N`, `cheap N`
ExtractedBudget(query) ==
    IF query.phrase \in {"under", "budget", "cheap"} THEN query.amount ELSE None

extract_preferences(query, sims) ==
    LET m == MaterialPreference(sims)
        top_style == ArgMax(StyleNames, sims)
    IN  [budget |-> ExtractedBudget(query),
         material |-> m.material,
         base_material |-> m.base_material,
         style |-> IF sims[top_style] > AcceptFloor THEN top_style ELSE Nil,
         color |-> Nil,
         comfort |-> IF sims["comfy"] > AcceptFloor THEN "high" ELSE Nil,
         confidences |->
             [material |-> m.confidence,
              style |-> IF sims[top_style] > AcceptFloor THEN sims[top_style] ELSE None,
              comfort |-> IF sims["comfy"] > AcceptFloor THEN sims["comfy"] ELSE None]]

(***************************************************************************)
(* EmbeddingTradeoffAnalyzer (Backend/embedding_tradeoff.py)               *)
(***************************************************************************)
MaterialAltFloor == 25         \* `material_similarity > 0.25`

\* _build_product_text(product).lower(), as the keywords it contains
ProductText(product) ==
    product.name \cup DescWords(product.description) \cup product.tags
    \cup Range(product.styles) \cup ProductColourWords(product.colors)

\* similarity of the product's text embedding and an attribute's canonical
\* embedding: high when the text names the attribute, middling when it
\* names another attribute of the same family, low otherwise
ProductAttrSim(product, attr) ==
    LET text == ProductText(product)
        family == IF attr \in Range(StyleNames) THEN Range(StyleNames)
                  ELSE Range(BaseMaterials) \cup Range(LeatherVariants)
    IN  IF attr \in text THEN 45
        ELSE IF text \cap family # {} THEN 28
        ELSE 15

\* the first word of `words` that occurs in the text, as a one-element or
\* empty list of gains
FirstIn(words, text, kind) ==
    LET found == SelectSeq(words, LAMBDA w : w \in text)
    IN  IF found = <<>> THEN <<>> ELSE <<[kind |-> kind, word |-> found[1]]>>

_analyze_budget(product, budget) ==
    IF product.price <= budget
    THEN IF budget - product.price > 0
         THEN [gains |-> <<[kind |-> "under_budget_by", dollars |-> budget - product.price]>>,
               loses |-> <<>>]
         ELSE [gains |-> <<[kind |-> "exactly_your_budget", dollars |-> budget]>>,
               loses |-> <<>>]
    ELSE [gains |-> <<>>,
          loses |-> <<[kind |-> "over_budget_by", dollars |-> product.price - budget]>>]

_analyze_material(product, preferred_material) ==
    LET text == ProductText(product)
        material_similarity == ProductAttrSim(product, preferred_material)
    IN  IF preferred_material \in text
        THEN IF preferred_material = "leather"
             THEN IF "genuine" \in text \/ "real" \in text
                  THEN [gains |-> <<[kind |-> "genuine_leather"]>>, loses |-> <<>>]
                  ELSE [gains |-> <<[kind |-> "leather_material"]>>, loses |-> <<>>]
             ELSE [gains |-> <<[kind |-> "material", word |-> preferred_material]>>,
                   loses |-> <<>>]
        ELSE IF material_similarity > MaterialAltFloor
        THEN IF preferred_material = "leather"
             THEN IF "pu" \in text \/ "faux" \in text
                  THEN [gains |-> <<[kind |-> "leather_like"]>>,
                        loses |-> <<[kind |-> "pu_faux_leather"]>>]
                  ELSE IF "fabric" \in text \/ "velvet" \in text
                  THEN [gains |-> FirstIn(<<"velvet", "fabric", "linen">>, text, "softer"),
                        loses |-> <<[kind |-> "not_leather"]>>]
                  ELSE [gains |-> <<>>, loses |-> <<[kind |-> "different_material"]>>]
             ELSE [gains |-> <<>>,
                   loses |-> <<[kind |-> "not_material", word |-> preferred_material]>>]
        ELSE [gains |-> FirstIn(BaseMaterials, text, "material"),
              loses |-> <<[kind |-> "not_material", word |-> preferred_material]>>]

related_styles(style) ==
    CASE style = "modern" -> <<"contemporary", "minimalist", "sleek">>
      [] style = "traditional" -> <<"classic", "vintage", "antique">>
      [] style = "industrial" -> <<"urban", "metal", "raw">>
      [] OTHER -> <<>>

opposites(style) ==
    CASE style = "modern" -> <<"traditional", "vintage">>
      [] style = "traditional" -> <<"modern", "minimalist">>
      [] style = "industrial" -> <<"traditional">>
      [] OTHER -> <<>>

_analyze_style(product, preferred_style) ==
    LET text == ProductText(product)
        style_similarity == ProductAttrSim(product, preferred_style)
        gains == IF preferred_style \in text
                 THEN <<[kind |-> "style", word |-> preferred_style]>>
                 ELSE IF style_similarity > AcceptFloor
                 THEN FirstIn(related_styles(preferred_style), text, "similar_style")
                 ELSE <<>>
        loses == FirstIn(opposites(preferred_style), text, "opposite_style")
    IN  IF gains = <<>> /\ loses = <<>>
        THEN [gains |-> <<>>, loses |-> <<[kind |-> "not_style", word |-> preferred_style]>>]
        ELSE [gains |-> gains, loses |-> loses]

comfort_indicators == <<"plush", "cushioned", "padded", "soft", "comfy", "cozy">>

_analyze_comfort(product, preferred_comfort) ==
    IF preferred_comfort = "high"
    THEN IF FirstIn(comfort_indicators, ProductText(product), "c") # <<>>
         THEN [gains |-> <<[kind |-> "comfortable_cushioning"]>>, loses |-> <<>>]
         ELSE [gains |-> <<>>, loses |-> <<[kind |-> "may_not_be_comfortable"]>>]
    ELSE [gains |-> <<>>, loses |-> <<>>]

NoAnalysis == [gains |-> <<>>, loses |-> <<>>]

\* the analysis that calls a product a compromise only when it loses more
\* than it gains
analyze_tradeoffs_by_score(product, preferences) ==
    LET b == IF Truthy(preferences.budget)
             THEN _analyze_budget(product, preferences.budget) ELSE NoAnalysis
        m == IF preferences.material # Nil
             THEN _analyze_material(product, preferences.material) ELSE NoAnalysis
        st == IF preferences.style # Nil
              THEN _analyze_style(product, preferences.style) ELSE NoAnalysis
        c == IF preferences.comfort # Nil
             THEN _analyze_comfort(product, preferences.comfort) ELSE NoAnalysis
        gains == b.gains \o m.gains \o st.gains \o c.gains
        loses == b.loses \o m.loses \o st.loses \o c.loses
    IN  [gains |-> gains, loses |-> loses,
         score |-> Len(gains) - Len(loses),
         is_compromise |-> Len(gains) < Len(loses)]

analyze_tradeoffs(product, preferences) ==
    LET b == IF Truthy(preferences.budget)
             THEN _analyze_budget(product, preferences.budget) ELSE NoAnalysis
        m == IF preferences.material # Nil
             THEN _analyze_material(product, preferences.material) ELSE NoAnalysis
        st == IF preferences.style # Nil
              THEN _analyze_style(product, preferences.style) ELSE NoAnalysis
        c == IF preferences.comfort # Nil
             THEN _analyze_comfort(product, preferences.comfort) ELSE NoAnalysis
        gains == b.gains \o m.gains \o st.gains \o c.gains
        loses == b.loses \o m.loses \o st.loses \o c.loses
    IN  [gains |-> gains, loses |-> loses,
         score |-> Len(gains) - Len(loses),
         is_compromise |-> Len(loses) > 0]

(***************************************************************************)
(* search_with_tradeoffs (Backend/main.py)                                 *)
(***************************************************************************)
TradeoffThreshold == 20        \* score_threshold=0.2
TradeoffDefaultLimit == 10     \* request.limit or 10

\* the similarities of the query embedding and the canonical attribute
\* embeddings: an attribute the text names scores higher
QueryAttrSims(req) ==
    [a \in AttributeNames |->
        CASE req.profile = "close" ->
                 IF a \in req.query.words THEN 45
                 ELSE IF a = "pu leather" /\ "leather" \in req.query.words THEN 50
                 ELSE 22
          [] req.profile = "mixed" ->
                 IF a = "pu leather" /\ a \in req.query.words THEN 60
                 ELSE IF a \in req.query.words THEN 33
                 ELSE 28
          [] OTHER -> IF a \in req.query.words THEN 30 ELSE 10]

\* `request.limit or default`
LimitOr(limit, default) == IF Truthy(limit) THEN limit ELSE default

build_tradeoff_explanation(preferences, exact_count, tradeoff_count) ==
    IF exact_count > 0
    THEN [text |-> "Found perfect match(es)", count |-> exact_count]
    ELSE IF tradeoff_count = 0
    THEN [text |-> "No products found matching your criteria"]
    ELSE IF Truthy(preferences.budget) /\ preferences.material # Nil
    THEN [text |-> "We couldn't find material products within your budget",
          count |-> tradeoff_count]
    ELSE IF Truthy(preferences.budget)
    THEN [text |-> "We found product(s) within your budget", count |-> tradeoff_count]
    ELSE [text |-> "We found product(s) that partially match", count |-> tradeoff_count]

\* extract_user_preferences: the extractor's preferences, or the empty
\* preferences when the embedding trade-off system was not initialised
extract_user_preferences(embedding_system, query, sims) ==
    IF embedding_system THEN extract_preferences(query, sims)
    ELSE [budget |-> None, material |-> Nil, base_material |-> Nil, style |-> Nil,
          color |-> Nil, comfort |-> Nil,
          confidences |-> [material |-> None, style |-> None, comfort |-> None]]

\* calculate_tradeoffs: the analyzer's analysis, or the "basic match" when
\* the embedding trade-off system was not initialised
calculate_tradeoffs(embedding_system, product, preferences) ==
    IF embedding_system THEN analyze_tradeoffs(product, preferences)
    ELSE [gains |-> <<[kind |-> "product_found"]>>, loses |-> <<>>,
          score |-> 1, is_compromise |-> FALSE]

\* the product dict of one result, with its trade-off analysis
TradeoffProduct(result, preferences, embedding_system) ==
    LET product == [product_id |-> result.payload.product_id,
                    name |-> result.payload.name,
                    category |-> result.payload.category,
                    price |-> result.payload.price,
                    score |-> result.score,
                    description |-> result.payload.description,
                    tags |-> result.payload.tags,
                    styles |-> result.payload.styles,
                    colors |-> result.payload.colors]
    IN  [product |-> product,
         tradeoff_analysis |-> calculate_tradeoffs(embedding_system, product, preferences)]

\* POST /search/tradeoffs
search_with_tradeoffs(idx, initialised, embedding_system, req) ==
    IF ~initialised THEN [response |-> ServiceUnavailable, searches |-> <<>>]
    ELSE
    LET preferences == extract_user_preferences(embedding_system, req.query,
                                                QueryAttrSims(req))
        results == Search(idx, ImageQuery(req.profile), req.category, preferences.budget,
                          LimitOr(req.limit, TradeoffDefaultLimit), TradeoffThreshold)
        products == MapSeq(results, LAMBDA r : TradeoffProduct(r, preferences, embedding_system))
        exact_matches == SelectSeq(products, LAMBDA x : ~x.tradeoff_analysis.is_compromise)
        trade_offs == SelectSeq(products, LAMBDA x : x.tradeoff_analysis.is_compromise)
    IN  [response |->
             [status |-> 200,
              user_preferences |-> preferences,
              total_results |-> Len(results),
              exact_matches |-> exact_matches,
              trade_offs |-> trade_offs,
              explanation |-> build_tradeoff_explanation(preferences, Len(exact_matches),
                                                         Len(trade_offs))],
         searches |-> <<Searched("image_clip", results)>>]

(***************************************************************************)
(* fusion_recommend (Backend/main.py)                                      *)
(***************************************************************************)
FusionThreshold == 20          \* score_threshold=0.2
FusionSearchLimit == 20        \* limit=20
FusionDefaultLimit == 8        \* request.limit or 8

fusion_material_keywords ==
    <<"leather", "velvet", "fabric", "wood", "metal", "cotton", "linen">>

RECURSIVE FuseClip(_, _)
\* `fused_products[product_id] = {...}` over the CLIP results: a dict keeps
\* the position of a key's first insertion and the value of its last
FuseClip(fused, results) ==
    IF results = <<>> THEN fused
    ELSE LET r == Head(results)
             entry == [product_id |-> r.payload.product_id, payload |-> r.payload,
                       score |-> 6 * r.score, clip_score |-> r.score, graph_score |-> 0]
             at == {j \in DOMAIN fused : fused[j].product_id = entry.product_id}
         IN  FuseClip(IF at = {} THEN Append(fused, entry)
                      ELSE [j \in DOMAIN fused |-> IF j \in at THEN entry ELSE fused[j]],
                      Tail(results))

RECURSIVE FuseGraph(_, _)
\* the graph results: add 30% of the graph score to a product already fused,
\* or insert the product with the graph share alone
FuseGraph(fused, results) ==
    IF results = <<>> THEN fused
    ELSE LET r == Head(results)
             at == {j \in DOMAIN fused : fused[j].product_id = r.payload.product_id}
         IN  FuseGraph(IF at = {}
                       THEN Append(fused, [product_id |-> r.payload.product_id,
                                           payload |-> r.payload, score |-> 3 * r.score,
                                           clip_score |-> 0, graph_score |-> r.score])
                       ELSE [j \in DOMAIN fused |->
                                IF j \in at
                                THEN [fused[j] EXCEPT !.score = @ + 3 * r.score,
                                                      !.graph_score = r.score]
                                ELSE fused[j]],
                       Tail(results))

\* the graph vector of the top CLIP match as the serving process retrieves
\* it: the point id is recomputed from the payload's product_id under the
\* serving process's hash seed; NoVector when the point or the vector is missing
ReferenceGraphVector(idx, clip_results, seed) ==
    IF clip_results = <<>> THEN NoVector
    ELSE LET ref == PointId(clip_results[1].payload.product_id, seed)
         IN  IF ref \in DOMAIN idx /\ "graph" \in DOMAIN idx[ref].vector
             THEN idx[ref].vector["graph"]
             ELSE NoVector

\* POST /recommend/fusion; fused scores are in thousandths
fusion_recommend(idx, initialised, seed, req) ==
    IF ~initialised THEN [response |-> ServiceUnavailable, searches |-> <<>>]
    ELSE
    LET max_price == UnderBudget(req.query)
        materials == KeywordsIn(fusion_material_keywords, req.query)
        clip_results == Search(idx, TextQuery(req.profile), req.category, max_price,
                               FusionSearchLimit, FusionThreshold)
        graph_vector == ReferenceGraphVector(idx, clip_results, seed)
        graph_results ==
            IF graph_vector = NoVector THEN <<>>
            ELSE Search(idx, GraphQuery(graph_vector), req.category, max_price,
                        FusionSearchLimit, None)
        fused_products == FuseGraph(FuseClip(<<>>, clip_results), graph_results)
        sorted_products ==
            Take(SortDesc(fused_products,
                          [j \in 1..Len(fused_products) |-> fused_products[j].score]),
                 LimitOr(req.limit, FusionDefaultLimit))
        has_exact_material ==
            \E j \in 1..Min(3, Len(sorted_products)) :
                \E k \in DOMAIN materials : materials[k] \in sorted_products[j].payload.tags
        explanation ==
            IF materials # <<>> /\ Truthy(max_price) /\ sorted_products # <<>>
               /\ ~has_exact_material
            THEN [text |-> "Sorry, we don't have material products at this price",
                  materials |-> materials, budget |-> max_price]
            ELSE [text |-> "Using AI-powered multimodal fusion"]
    IN  [response |->
             [status |-> 200,
              strategy |-> "multimodal_fusion",
              explanation |-> explanation,
              budget_limit |-> max_price,
              products |-> sorted_products],
         searches |-> IF graph_vector = NoVector
                      THEN <<Searched("text_clip", clip_results)>>
                      ELSE <<Searched("text_clip", clip_results),
                             Searched("graph", graph_results)>>]

(***************************************************************************)
(* recommend_by_text and recommend_similar (Backend/main.py)               *)
(***************************************************************************)
TextDefaultLimit == 8          \* `limit=request.limit or 8`
SimilarDefaultLimit == 8       \* `limit: int = 8`

\* ProductRecommendation(product_id, name, category, price, score, image)
Recommendation(result) ==
    [product_id |-> result.payload.product_id, name |-> result.payload.name,
     category |-> result.payload.category, price |-> result.payload.price,
     score |-> result.score]

\* POST /recommend/text: text_clip search, category filter, no threshold
recommend_by_text(idx, initialised, req) ==
    IF ~initialised THEN [response |-> ServiceUnavailable, searches |-> <<>>]
    ELSE
    LET search_results == Search(idx, TextQuery(req.profile), req.category, None,
                                 LimitOr(req.limit, TextDefaultLimit), None)
    IN  [response |-> [status |-> 200,
                       recommendations |-> MapSeq(search_results, Recommendation)],
         searches |-> <<Searched("text_clip", search_results)>>]

NotFound(detail) == [status |-> 404, detail |-> detail]

\* POST /recommend/similar/{product_id}: the stored graph vector of the
\* product is the query of a graph search over the whole collection
recommend_similar(idx, initialised, seed, product_id, limit) ==
    IF ~initialised THEN [response |-> ServiceUnavailable, searches |-> <<>>]
    ELSE
    LET product_id_int == PointId(product_id, seed)
    IN  IF product_id_int \notin DOMAIN idx
        THEN [response |-> NotFound("Product not found"), searches |-> <<>>]
        ELSE IF "graph" \notin DOMAIN idx[product_id_int].vector
        THEN [response |-> NotFound("Graph embedding not found for this product"),
              searches |-> <<>>]
        ELSE
        LET search_results ==
                Search(idx, GraphQuery(idx[product_id_int].vector["graph"]), "all", None,
                       limit + 1, None)
            others == SelectSeq(search_results,
                                LAMBDA r : r.payload.product_id # product_id)
        IN  [response |-> [status |-> 200,
                           recommendations |-> Take(MapSeq(others, Recommendation), limit)],
             searches |-> <<Searched("graph", search_results)>>]

(***************************************************************************)
(* The retrieval specification: one API process answering requests over a  *)
(* collection some pipeline run has filled                                 *)
(***************************************************************************)
BudgetPhrases == {<<"none", 0>>, <<"under", 0>>, <<"under", 600>>,
                  <<"under", 1200>>, <<"budget", 600>>}

WordSets == {{}, {"blue"}, {"leather"}, {"blue", "leather"},
             {"gray", "velvet", "leather"},
             {"modern", "storage", "leather", "pu leather"}}

Queries == {Query(b[1], b[2], w) : b \in BudgetPhrases, w \in WordSets}

Requests == [query : Queries, category : {"all", "sofa"}, limit : {None, 2},
             profile : Profiles]

NoRequest == [handler |-> "none"]
NoResponse == [status |-> 0]
IdleRun == [pc |-> "idle"]
NoExtraction == [done |-> FALSE]

(***************************************************************************)
(* services/user_activity.py and the /track, /users/{user_id}/activity     *)
(* handlers of main.py                                                     *)
(***************************************************************************)
UserIds == {1, 2}
ProfileWindow == 50            \* events[-50:]
RecentWindow == 100            \* events[-100:]

\* user_activities_cache = defaultdict(list)
EmptyCache == [user_id \in UserIds |-> <<>>]

\* the process after import of user_activity, with an empty users collection
\* the threads of the worker pool that runs the synchronous handlers
Threads == {1, 2}
IdleCall == [pc |-> "idle", raised |-> FALSE]

NoTracking ==
    /\ user_activities_cache = EmptyCache
    /\ users = EmptyIndex
    /\ clock = 0
    /\ calls = [t \in Threads |-> IdleCall]

\* value or default, for an Optional[str] field
OrEmpty(value) == IF value = Nil THEN "" ELSE value

\* s[-n:]
LastN(s, n) == SubSeq(s, Max(1, Len(s) - n + 1), Len(s))

\* UserEvent(...).to_dict(), built by track_user_event from the request
UserEvent(req, now) ==
    [user_id |-> req.user_id, event_type |-> req.event_type,
     product_id |-> OrEmpty(req.product_id),
     product_name |-> OrEmpty(req.product_name),
     category |-> OrEmpty(req.category),
     price |-> IF req.price = None THEN 0 ELSE req.price,
     search_query |-> req.search_query,
     timestamp |-> now]

\* hash(user_id) % (2**31)
_get_user_point_id(user_id, seed) == StrHashMod(user_id, seed)

\* the profile_texts loop of _update_user_embedding_in_qdrant
RECURSIVE ProfileTexts(_)
ProfileTexts(events) ==
    IF events = <<>> THEN <<>>
    ELSE LET event == Head(events)
             text == IF event.event_type = "search"
                        /\ event.search_query \notin {Nil, ""}
                     THEN <<[query |-> event.search_query]>>
                     ELSE IF event.event_type \in {"view", "click"}
                     THEN <<[name |-> event.product_name, category |-> event.category]>>
                     ELSE <<>>
         IN text \o ProfileTexts(Tail(events))

\* the payload of the user point, built from the cached events
UserPayload(events, user_id, now) ==
    [user_id |-> user_id,
     total_events |-> Len(events),
     last_updated |-> now,
     recent_activity |-> LastN(events, RecentWindow),
     categories |-> {e.category : e \in Range(events)} \ {""}]

\* PointStruct(id=point_id, vector={'preference': ...}, payload=payload)
UserPoint(user_id, seed, profile_texts, payload) ==
    [id |-> _get_user_point_id(user_id, seed),
     vector |-> [dim |-> TextDim, zero |-> FALSE, text |-> profile_texts],
     payload |-> payload]

\* the users collection after _update_user_embedding_in_qdrant(user_id);
\* raises: the text encoder or the upsert raises, which is printed
_update_user_embedding_in_qdrant(cache, collection, user_id, seed, now, raises) ==
    LET events == cache[user_id]
        profile_texts == ProfileTexts(LastN(events, ProfileWindow))
        point == UserPoint(user_id, seed, profile_texts, UserPayload(events, user_id, now))
    IN IF events = <<>> \/ profile_texts = <<>> \/ raises THEN collection
       ELSE Upsert(collection, <<point>>)

\* UserActivityTracker.track_event: the module-level cache after the append
track_event(cache, event) ==
    [cache EXCEPT ![event.user_id] = Append(@, event)]

\* UserActivityTracker.get_user_activity_summary
get_user_activity_summary(collection, user_id, seed, raises) ==
    LET point_id == _get_user_point_id(user_id, seed)
    IN IF raises THEN [user_id |-> user_id, error |-> TRUE]
       ELSE IF point_id \notin DOMAIN collection
       THEN [user_id |-> user_id, total_events |-> 0, product_views |-> 0,
             product_clicks |-> 0, searches |-> 0, top_categories |-> {},
             last_active |-> None, found |-> FALSE]
       ELSE LET payload == collection[point_id].payload
                recent_activity == payload.recent_activity
                Count(kind) == Len(SelectSeq(recent_activity,
                                             LAMBDA e : e.event_type = kind))
                \* the events of the model name fewer than five categories,
                \* so the [:5] cut keeps every counted category
                top_categories ==
                    {[category |-> c,
                      count |-> Len(SelectSeq(recent_activity,
                                              LAMBDA e : e.category = c))] :
                        c \in {e.category : e \in Range(recent_activity)} \ {""}}
            IN [user_id |-> user_id, total_events |-> payload.total_events,
                product_views |-> Count("view"), product_clicks |-> Count("click"),
                searches |-> Count("search"), top_categories |-> top_categories,
                last_active |-> payload.last_updated, found |-> TRUE]

\* TrackEventRequest bodies
TrackEventRequests ==
    {[user_id |-> u, event_type |-> "view", product_id |-> "101",
      product_name |-> "Oslo Sofa", category |-> "sofa", price |-> 499,
      search_query |-> Nil] : u \in UserIds}
    \cup {[user_id |-> u, event_type |-> "search", product_id |-> Nil,
           product_name |-> Nil, category |-> Nil, price |-> None,
           search_query |-> q] : u \in UserIds, q \in {Nil, "blue sofa"}}
    \cup {[user_id |-> u, event_type |-> "purchase", product_id |-> "101",
           product_name |-> "Oslo Sofa", category |-> "sofa", price |-> 499,
           search_query |-> Nil] : u \in UserIds}

\* the collections a retrieval behaviour may start from: a complete run
\* over the first n catalog items
StoredIndexes ==
    {IndexOf(n, [seed |-> 0, walks |-> 0, fault |-> "none"]) : n \in 0..NumProducts}
    \cup {IndexOf(NumProducts, [seed |-> 0, walks |-> 0, fault |-> f]) :
             f \in {"graph", "text_clip"}}

\* the process before or without its startup initialisation
DownServer == [ready |-> FALSE, seed |-> 0, reachable |-> TRUE, embedding_system |-> FALSE]

\* startup_event: the clients are created or not; the Qdrant client connects
\* lazily, so an initialised process may find the index unreachable; a
\* failure of initialize_embedding_system is printed and startup goes on
Servers ==
    {DownServer}
    \cup {[ready |-> TRUE, seed |-> sd, reachable |-> TRUE, embedding_system |-> TRUE] :
             sd \in 0..MaxSeed}
    \cup {[ready |-> TRUE, seed |-> 0, reachable |-> FALSE, embedding_system |-> TRUE],
          [ready |-> TRUE, seed |-> 0, reachable |-> TRUE, embedding_system |-> FALSE]}

\* `except Exception as e: raise HTTPException(status_code=500, ...)` around
\* a handler's body: the first call to the unreachable index raises
Except(srv, detail, out) ==
    IF srv.ready /\ ~srv.reachable
    THEN [response |-> [status |-> 500, detail |-> detail], searches |-> <<>>]
    ELSE out

InitQuery ==
    /\ index \in StoredIndexes
    /\ server \in Servers
    /\ request = NoRequest
    /\ response = NoResponse
    /\ searchLog = <<>>
    /\ run = IdleRun
    /\ history = <<>>
    /\ extraction = NoExtraction
    /\ NoTracking

\* The handlers read the collection and write nothing, so a second request
\* meets the state the first one met: a behaviour handles one request.
Handled(name, req, out) ==
    /\ request = NoRequest
    /\ request' = [handler |-> name, query |-> req.query, category |-> req.category,
                   limit |-> req.limit, profile |-> req.profile]
    /\ response' = out.response
    /\ searchLog' = out.searches
    /\ UNCHANGED <<index, server, run, history, extraction, tracking>>

SmartRecommend ==
    \E req \in Requests :
        Handled("smart_recommend", req,
                Except(server, "Search failed",
                       smart_recommend(index, server.ready, req)))

SearchWithTradeoffs ==
    \E req \in Requests :
        Handled("search_with_tradeoffs", req,
                Except(server, "Trade-off search failed",
                       search_with_tradeoffs(index, server.ready,
                                             server.embedding_system, req)))

FusionRecommend ==
    \E req \in Requests :
        Handled("fusion_recommend", req,
                Except(server, "Fusion search failed",
                       fusion_recommend(index, server.ready, server.seed, req)))

RecommendByText ==
    \E req \in Requests :
        Handled("recommend_by_text", req,
                Except(server, "Search failed",
                       recommend_by_text(index, server.ready, req)))

\* the product ids asked for: those of the catalog and one of no product
SimilarIds == {Product(i).id : i \in 1..NumProducts} \cup {[digits |-> TRUE, n |-> 99]}

RecommendSimilar ==
    /\ request = NoRequest
    /\ \E product_id \in SimilarIds, limit \in {SimilarDefaultLimit, 2} :
           LET out == Except(server, "Search failed",
                             recommend_similar(index, server.ready, server.seed,
                                               product_id, limit))
           IN  /\ request' = [handler |-> "recommend_similar",
                              product_id |-> product_id, limit |-> limit]
               /\ response' = out.response
               /\ searchLog' = out.searches
    /\ UNCHANGED <<index, server, run, history, extraction, tracking>>

NextQuery ==
    \/ SmartRecommend \/ SearchWithTradeoffs \/ FusionRecommend
    \/ RecommendByText \/ RecommendSimilar

SpecQuery == InitQuery /\ [][NextQuery]_vars

(***************************************************************************)
(* Properties of smart_recommend                                           *)
(***************************************************************************)
SmartDone == request.handler = "smart_recommend" /\ response.status = 200

\* the product ids a tier carries
TierIds(tier) == {tier[j].product.product_id : j \in DOMAIN tier}

\* the products the index holds at or above the 0.67 floor for the request
FloorCandidates ==
    {index[id].payload.product_id : id \in
        {i \in DOMAIN index :
            /\ CategoryPass(request.category, index[i].payload)
            /\ TextScore(request.profile, index[i].vector["text_clip"]) >= 67}}

TiersDisjoint ==
    /\ TierIds(response.perfect_matches) \cap TierIds(response.alternatives) = {}
    /\ TierIds(response.perfect_matches) \cap TierIds(response.over_budget_options) = {}
    /\ TierIds(response.alternatives) \cap TierIds(response.over_budget_options) = {}
    /\ \A t \in {response.perfect_matches, response.alternatives,
                 response.over_budget_options} :
           \A j, k \in DOMAIN t : j # k => t[j].product.product_id # t[k].product.product_id

TiersUnion ==
    TierIds(response.perfect_matches) \cup TierIds(response.alternatives)
    \cup TierIds(response.over_budget_options)

SomeTierFull ==
    \/ Len(response.perfect_matches) = 10
    \/ Len(response.alternatives) = 5
    \/ Len(response.over_budget_options) = 5

\* C1 as stated: the three tiers are pairwise disjoint and their union is
\* the set of candidates at or above the similarity floor.
C1_TiersPartitionCandidates ==
    SmartDone => TiersDisjoint /\ TiersUnion = FloorCandidates

\* C1 as amended: the three tiers are pairwise disjoint, hold only candidates
\* at or above the floor, and miss a candidate only when a tier has been cut
\* at its cap (10 perfect matches, 5 alternatives, 5 over-budget options).
C1_TiersPartitionUpToCaps ==
    SmartDone =>
        /\ TiersDisjoint
        /\ TiersUnion \subseteq FloorCandidates
        /\ (~SomeTierFull => TiersUnion = FloorCandidates)

\* a response with all three tiers filled and every candidate returned
C1_Witness ==
    /\ SmartDone
    /\ response.perfect_matches # <<>>
    /\ response.alternatives # <<>>
    /\ response.over_budget_options # <<>>
    /\ TiersUnion = FloorCandidates

WithinBudgetIds(resp) == TierIds(resp.perfect_matches) \cup TierIds(resp.alternatives)

\* the response to the request of the current state with its budget raised
RaisedBudgetResponse(amount) ==
    smart_recommend(index, TRUE,
                    [query |-> [request.query EXCEPT !.amount = amount],
                     category |-> request.category, limit |-> request.limit,
                     profile |-> request.profile]).response

HigherBudgets ==
    {b[2] : b \in {x \in BudgetPhrases : x[1] = "under" /\ x[2] > request.query.amount}}

\* C3 as stated: with the budget raised from B1 to B2 > B1, every product of
\* perfect_matches or alternatives under B1 is in perfect_matches or
\* alternatives under B2.
C3_RaisingBudgetKeepsProducts ==
    (SmartDone /\ request.query.phrase = "under") =>
        \A b2 \in HigherBudgets :
            WithinBudgetIds(response) \subseteq WithinBudgetIds(RaisedBudgetResponse(b2))

\* C3 as amended: with the budget raised from B1 to B2 > B1, a product of
\* perfect_matches or alternatives under B1 is never an over-budget option
\* under B2, and it is in perfect_matches or alternatives under B2 unless one
\* of these two tiers has been cut at its cap (10 and 5).
C3_RaisingBudgetKeepsProductsUpToCaps ==
    (SmartDone /\ request.query.phrase = "under") =>
        \A b2 \in HigherBudgets :
            LET raised == RaisedBudgetResponse(b2)
            IN  /\ WithinBudgetIds(response) \cap TierIds(raised.over_budget_options) = {}
                /\ \/ WithinBudgetIds(response) \subseteq WithinBudgetIds(raised)
                   \/ Len(raised.perfect_matches) = 10
                   \/ Len(raised.alternatives) = 5

\* a budgeted response with products within budget and more of them within
\* the next higher budget
C3_Witness ==
    /\ SmartDone
    /\ request.query.phrase = "under"
    /\ WithinBudgetIds(response) # {}
    /\ response.over_budget_options # <<>>
    /\ \E b2 \in HigherBudgets :
           /\ WithinBudgetIds(response) \subseteq WithinBudgetIds(RaisedBudgetResponse(b2))
           /\ WithinBudgetIds(response) # WithinBudgetIds(RaisedBudgetResponse(b2))

\* every scored product of the response, whatever its tier
ScoredProducts ==
    Range(response.perfect_matches) \cup Range(response.alternatives)
    \cup Range(response.over_budget_options)

\* the stored payload of a scored product
StoredPayload(entry) ==
    LET id == CHOOSE i \in DOMAIN index :
                  index[i].payload.product_id = entry.product.product_id
    IN  index[id].payload

\* the candidate fails a stated constraint: over the budget ceiling, none of
\* the requested colours, or a requested material that its name, description
\* and tags do not mention
FailsConstraint(entry, reqs) ==
    LET payload == StoredPayload(entry)
    IN  \/ reqs.budget # None /\ payload.price > reqs.budget
        \/ /\ reqs.colors # <<>>
           /\ Range(reqs.colors) \cap ProductColourWords(payload.colors) = {}
        \/ \E m \in Range(reqs.materials) :
               m \notin payload.name \cup DescWords(payload.description) \cup payload.tags

\* C4: the disadvantages of a scored candidate are non-empty if and only if
\* the candidate fails a stated constraint (price over the budget ceiling, none
\* of the requested colours, a requested material missing).
C4_DisadvantagesIffConstraintFails ==
    SmartDone =>
        \A e \in ScoredProducts :
            (e.compromise.disadvantages # <<>>)
                <=> FailsConstraint(e, response.user_requirements)

BudgetKinds(items) == {items[j].kind : j \in DOMAIN items} \cap
                      {"under_budget", "over_budget", "under_budget_by", "over_budget_by"}

\* C5: a candidate priced exactly at the budget ceiling gets no price
\* disadvantage and no price-saving advantage, from analyze_compromises and
\* from _analyze_budget alike.
C5_ExactBudgetIsNeutral ==
    /\ SmartDone =>
           \A e \in ScoredProducts :
               e.product.price = response.user_requirements.budget =>
                   /\ BudgetKinds(e.compromise.advantages) = {}
                   /\ BudgetKinds(e.compromise.disadvantages) = {}
    /\ (request.handler = "search_with_tradeoffs" /\ response.status = 200) =>
           \A e \in Range(response.exact_matches) \cup Range(response.trade_offs) :
               e.product.price = response.user_preferences.budget =>
                   /\ BudgetKinds(e.tradeoff_analysis.gains) = {}
                   /\ BudgetKinds(e.tradeoff_analysis.loses) = {}

\* a smart_recommend response scoring a product priced exactly at the budget
C5_Witness ==
    /\ SmartDone
    /\ \E e \in ScoredProducts :
           /\ e.product.price = response.user_requirements.budget
           /\ e.product.price > 0
           /\ \E j \in DOMAIN e.compromise.advantages :
                  e.compromise.advantages[j].kind = "within_budget"

\* a search_with_tradeoffs response analysing a product priced exactly at
\* the budget
C5_TradeoffCase ==
    /\ request.handler = "search_with_tradeoffs" /\ response.status = 200
    /\ \E e \in Range(response.exact_matches) \cup Range(response.trade_offs) :
           /\ e.product.price = response.user_preferences.budget
           /\ \E j \in DOMAIN e.tradeoff_analysis.gains :
                  e.tradeoff_analysis.gains[j].kind = "exactly_your_budget"

(***************************************************************************)
(* The pipeline specification: MultimodalIndexer.index_products over the   *)
(* catalog, run twice (each run a process of its own, as run_indexing.py   *)
(* starts it), against a collection that starts empty                      *)
(***************************************************************************)
batch_size == 3                \* `batch_size = 3` overrides the argument
max_retries == 3

\* the batch_size arguments index_products is called with (50 by default)
BatchSizeArguments == {1, 50}

\* the loop working with the caller's batch_size
ArgumentBatchSize(argument) == argument

\* the batch size the loop works with: the assignment before the loop
\* replaces the argument
LoopBatchSize(argument) == batch_size

RunNumbers == {1, 2}

\* a wait that does not grow with the attempt
WaitTimeFlat(attempt) == 5

\* `wait_time = (attempt + 1) * 5`, attempt counted from 0
WaitTime(attempt) == (attempt + 1) * 5

\* the attempt that failed was the last one: `attempt < max_retries - 1` is
\* false and the exception is re-raised
LastAttempt(attempt) == ~(attempt < max_retries - 1)

\* the catalog file holds the first `size` products, the same file for both runs
\* the exception swallowed: the failed batch is dropped and the loop goes on
ReraiseSwallowed(pc) == "building"

\* the bare `raise` in the except branch of the last attempt: the exception
\* leaves index_products, and main() and run_indexing.py do not resume it
Reraise(pc) == "raised"

InitIndex ==
    /\ index = EmptyIndex
    /\ server = DownServer
    /\ request = NoRequest
    /\ response = NoResponse
    /\ searchLog = <<>>
    /\ \E size \in 0..NumProducts : run = [pc |-> "idle", size |-> size]
    /\ history = <<>>
    /\ extraction = NoExtraction
    /\ NoTracking

Running == run.pc \in {"building", "loop_upload", "final_upload"}

\* python index_qdrant.py: steps 1-3 compute the embedding tables (their
\* outcome is the run's configuration), step 4 starts with no pending points
StartIndexing ==
    /\ ~Running
    /\ Len(history) + 1 \in RunNumbers
    /\ \E cfg \in RunConfigs, argument \in BatchSizeArguments :
           run' = [pc |-> "building", size |-> run.size, cfg |-> cfg,
                   batch_size |-> LoopBatchSize(argument),
                   points_before |-> Cardinality(DOMAIN index),
                   next |-> 1, points |-> <<>>,
                   attempt |-> 0, tries |-> <<>>, sleeps |-> <<>>, batches |-> <<>>,
                   written |-> <<>>]
    /\ UNCHANGED <<index, server, request, response, searchLog, history, extraction, tracking>>

\* the `for product in products` loop up to the next upload: points are
\* appended until the batch is full (upload inside the loop) or the catalog
\* is exhausted (upload of the remaining points)
FillBatch ==
    /\ run.pc = "building"
    /\ run.next <= run.size
    /\ LET last == Min(run.next + run.batch_size - 1, run.size)
           points == [j \in 1..(last - run.next + 1) |->
                         BuildPoint(run.next + j - 1, run.size, run.cfg)]
       IN  run' = [run EXCEPT !.points = points, !.next = last + 1,
                              !.attempt = 0, !.tries = <<>>, !.sleeps = <<>>,
                              !.pc = IF Len(points) >= run.batch_size THEN "loop_upload"
                                     ELSE "final_upload"]
    /\ UNCHANGED <<index, server, request, response, searchLog, history, extraction, tracking>>

\* the summary of a run that ended
Ended(outcome) ==
    [outcome |-> outcome,
     count |-> IF outcome = "returned" THEN run.size ELSE None,
     seed |-> run.cfg.seed,
     fault |-> run.cfg.fault,
     batches |-> run.batches,
     written |-> run.written,
     ids |-> UNION {Range(run.batches[j]) : j \in DOMAIN run.batches},
     points_before |-> run.points_before]

\* client.upsert succeeds: the batch is stored, the retry loop is left
UpsertSucceeds ==
    /\ run.pc \in {"loop_upload", "final_upload"}
    /\ index' = Upsert(index, run.points)
    /\ LET batches == Append(run.batches, MapSeq(run.points, LAMBDA pt : pt.id))
           after == [run EXCEPT !.batches = batches, !.points = <<>>,
                                !.written = @ \o MapSeq(run.points, LAMBDA pt : pt.vector),
                                !.tries = Append(@, "ok")]
       IN  IF run.pc = "loop_upload"
           THEN /\ run' = [after EXCEPT !.pc = "building"]
                /\ history' = history
           ELSE /\ run' = [after EXCEPT !.pc = "returned"]
                /\ history' = Append(history,
                                     [Ended("returned") EXCEPT
                                         !.batches = batches,
                                         !.written = after.written,
                                         !.ids = UNION {Range(batches[j]) : j \in DOMAIN batches}])
    /\ UNCHANGED <<server, request, response, searchLog, extraction, tracking>>

\* client.upsert raises: sleep and retry, or re-raise after the last attempt
UpsertFails ==
    /\ run.pc \in {"loop_upload", "final_upload"}
    /\ IF LastAttempt(run.attempt)
       THEN /\ run' = [run EXCEPT !.pc = Reraise(run.pc), !.tries = Append(@, "fail"),
                                  !.points = IF Reraise(run.pc) = "raised" THEN @ ELSE <<>>]
            /\ history' = IF Reraise(run.pc) = "raised"
                          THEN Append(history, Ended("raised")) ELSE history
       ELSE /\ run' = [run EXCEPT !.attempt = @ + 1, !.tries = Append(@, "fail"),
                                  !.sleeps = Append(@, WaitTime(run.attempt))]
            /\ history' = history
    /\ UNCHANGED <<index, server, request, response, searchLog, extraction, tracking>>

\* the loop is over and no points remain: `return len(products)`
ReturnCount ==
    /\ run.pc = "building"
    /\ run.next > run.size
    /\ run' = [run EXCEPT !.pc = "returned"]
    /\ history' = Append(history, Ended("returned"))
    /\ UNCHANGED <<index, server, request, response, searchLog, extraction, tracking>>

NextIndex == StartIndexing \/ FillBatch \/ UpsertSucceeds \/ UpsertFails \/ ReturnCount

SpecIndex == InitIndex /\ [][NextIndex]_vars

(***************************************************************************)
(* Properties of index_products                                            *)
(***************************************************************************)
AllFailed == <<"fail", "fail", "fail">>

\* the point ids index_products builds for items first..last of the catalog
BuiltIds(first, last, cfg, size) ==
    {BuildPoint(i, size, cfg).id : i \in first..last}

\* C6: a batch whose upsert failed on all three attempts ends the run with
\* the exception: the run is in its raised state, it is recorded as raised,
\* and what it stored is exactly the batches before the failed one, so no
\* item of the failed batch or of a later batch was upserted by it
C6_ExhaustedBatchAbortsRun ==
    (run.pc # "idle" /\ run.pc # "returned" /\ run.tries = AllFailed) =>
        /\ run.pc = "raised"
        /\ history # <<>>
        /\ LET ended == history[Len(history)]
           IN  /\ ended.outcome = "raised"
               /\ ended.batches = run.batches
               /\ Len(run.batches) * batch_size < run.size
               /\ ended.ids = BuiltIds(1, Len(run.batches) * batch_size, run.cfg, run.size)
               /\ \A i \in (Len(run.batches) * batch_size + 1)..run.size :
                      BuildPoint(i, run.size, run.cfg).id \notin ended.ids

\* a run that raised on its second batch, after the first was stored
C6_Witness ==
    /\ run.pc = "raised"
    /\ run.tries = AllFailed
    /\ Len(run.batches) = 1
    /\ run.size > 2 * batch_size

IsPrefix(s, t) == Len(s) <= Len(t) /\ s = SubSeq(t, 1, Len(s))

\* C7: the current batch has seen at most three attempts, a success is the
\* last attempt made for it, the waits slept so far are 5 s then 10 s (one
\* per failed attempt that is followed by a retry), and a batch with three
\* attempts behind it is either stored or has ended the run
C7_BoundedRetriesIncreasingWait ==
    (run.pc # "idle") =>
        /\ Len(run.tries) <= 3
        /\ \A k \in 1..Len(run.tries) : run.tries[k] = "ok" => k = Len(run.tries)
        /\ IsPrefix(run.sleeps, <<5, 10>>)
        /\ \A k \in 1..(Len(run.sleeps) - 1) : run.sleeps[k] < run.sleeps[k + 1]
        /\ Len(run.sleeps) = Cardinality({k \in 1..Min(Len(run.tries), 2) : run.tries[k] = "fail"})
        /\ (run.pc \in {"loop_upload", "final_upload"} => Len(run.tries) < 3)
        /\ (Len(run.tries) = 3 =>
               \/ run.tries[3] = "ok" /\ run.pc \in {"building", "returned"}
               \/ run.tries[3] = "fail" /\ run.pc = "raised")

\* a batch stored on its third attempt, after waits of 5 s and 10 s
C7_Witness ==
    /\ run.pc \in {"building", "returned"}
    /\ run.tries = <<"fail", "fail", "ok">>
    /\ run.sleeps = <<5, 10>>

SpaceDim(space) ==
    CASE space = "text_clip" -> TextDim
      [] space = "image_clip" -> TextDim
      [] space = "color" -> ColorDim
      [] space = "graph" -> GraphDim

\* C8: every stored point has a vector in each of the four named spaces,
\* of that space's dimension
C8_EveryPointHasEverySpace ==
    \A id \in DOMAIN index :
        /\ DOMAIN index[id].vector = Spaces
        /\ \A space \in Spaces : index[id].vector[space].dim = SpaceDim(space)

\* C9: when two runs over the same catalog both returned, the second wrote
\* the point ids the first wrote and the collection has as many points after
\* it as before it
C9_RerunWritesSameIds ==
    (Len(history) = 2 /\ history[1].outcome = "returned" /\ history[2].outcome = "returned"
         /\ ~Running) =>
        /\ history[2].ids = history[1].ids
        /\ Cardinality(DOMAIN index) = history[2].points_before

(***************************************************************************)
(* Properties of the substitute search                                     *)
(***************************************************************************)
RetrievalHandlers == {"smart_recommend", "search_with_tradeoffs", "fusion_recommend"}

Answered ==
    request # NoRequest /\ request.handler \in RetrievalHandlers /\ response.status = 200

GraphSearches == Cardinality({k \in DOMAIN searchLog : searchLog[k].space = "graph"})

\* C2: a handled query with a budget whose primary search returned nothing
\* ran the graph-space search exactly once, and a handled query without a
\* budget never ran it
C2_SubstituteSearchOnlyForEmptyBudgetSearch ==
    Answered =>
        /\ (request.query.phrase = "under" /\ searchLog[1].returned = 0) => GraphSearches = 1
        /\ request.query.phrase = "none" => GraphSearches = 0

(***************************************************************************)
(* The extraction specification: extract_preferences applied to one query  *)
(* embedding, given by its cosine similarities (in hundredths) to the      *)
(* canonical attribute embeddings                                          *)
(***************************************************************************)
SimTables ==
    {[a \in AttributeNames |->
         CASE a = "leather" -> t[1]
           [] a = "pu leather" -> t[2]
           [] a = "velvet" -> t[3]
           [] a = "modern" -> t[4]
           [] a = "comfy" -> t[5]
           [] OTHER -> 20] :
     t \in {25, 30, 31, 35, 40} \X {35, 40, 41, 45, 50} \X {20, 36} \X {20, 40} \X {30, 31}}

InitExtract ==
    /\ index = EmptyIndex
    /\ server = DownServer
    /\ request = NoRequest
    /\ response = NoResponse
    /\ searchLog = <<>>
    /\ run = IdleRun
    /\ history = <<>>
    /\ extraction = NoExtraction
    /\ NoTracking

ExtractPreferences ==
    /\ ~extraction.done
    /\ \E sims \in SimTables, phrase \in {"none", "under"}, words \in {{}, {"blue"}} :
           LET query == Query(phrase, 600, words)
           IN  extraction' = [done |-> TRUE, query |-> query, sims |-> sims,
                              preferences |-> extract_preferences(query, sims)]
    /\ UNCHANGED <<index, server, request, response, searchLog, run, history, tracking>>

NextExtract == ExtractPreferences

SpecExtract == InitExtract /\ [][NextExtract]_vars

\* the base material leather was accepted: it is the best base material
\* and its similarity is above 0.3
LeatherAccepted(sims) ==
    /\ sims["leather"] > 30
    /\ \A m \in Range(BaseMaterials) : sims[m] <= sims["leather"]

\* C10: with leather accepted, the reported material is the variant exactly
\* when the variant's similarity exceeds leather's by more than 0.1, and
\* leather otherwise; 0.35 against 0.50 gives the variant, 0.35 against 0.40
\* gives leather
C10_VariantNeedsMargin ==
    (extraction.done /\ LeatherAccepted(extraction.sims)) =>
        LET sims == extraction.sims
            prefs == extraction.preferences
        IN  /\ prefs.material = "pu leather" <=> sims["pu leather"] > sims["leather"] + 10
            /\ prefs.material \in {"pu leather", "leather"}
            /\ (sims["leather"] = 35 /\ sims["pu leather"] = 50) => prefs.material = "pu leather"
            /\ (sims["leather"] = 35 /\ sims["pu leather"] = 40) => prefs.material = "leather"

\* base 0.35, variant 0.50: the variant is reported, with leather as its base
C10_Witness ==
    /\ extraction.done
    /\ LeatherAccepted(extraction.sims)
    /\ extraction.sims["leather"] = 35
    /\ extraction.sims["pu leather"] = 50
    /\ extraction.preferences.material = "pu leather"
    /\ extraction.preferences.base_material = "leather"

(***************************************************************************)
(* Properties of the handlers' responses                                   *)
(***************************************************************************)
Handler(name) == request # NoRequest /\ request.handler = name /\ response.status = 200

\* the response carries no product at all
ReturnedNothing ==
    \/ Handler("smart_recommend")
       /\ response.perfect_matches = <<>> /\ response.alternatives = <<>>
       /\ response.over_budget_options = <<>>
    \/ Handler("search_with_tradeoffs")
       /\ response.exact_matches = <<>> /\ response.trade_offs = <<>>
    \/ Handler("fusion_recommend") /\ response.products = <<>>

\* the explanation templates that say that no products were found
NoProductsTexts == {"No products found", "No products found matching your criteria"}

\* C11: a response without any product explains that no products were found
C11_EmptyResultIsExplained ==
    ReturnedNothing => response.explanation.text \in NoProductsTexts

QueryHandlers == RetrievalHandlers \cup {"recommend_by_text"}

\* C12: a query handler called while the clients are not initialised, or
\* while the index cannot be reached, answers 503
C12_UnavailableServiceAnswers503 ==
    (request # NoRequest /\ request.handler \in QueryHandlers
         /\ (~server.ready \/ ~server.reachable)) =>
        response.status = 503

\* the query "blue sofa under 600" answered over exactly two candidates at
\* or above the floor: a blue sofa at 949 and a gray sofa at 550
BlueSofaCase ==
    /\ SmartDone
    /\ request.query = Query("under", 600, {"blue"})
    /\ LET cands == {i \in DOMAIN index :
                        /\ CategoryPass(request.category, index[i].payload)
                        /\ TextScore(request.profile, index[i].vector["text_clip"]) >= 67}
       IN  \E b, g \in cands :
               /\ cands = {b, g}
               /\ index[b].payload.category = "sofa" /\ index[b].payload.price = 949
               /\ index[b].payload.colors = <<"blue">>
               /\ index[g].payload.category = "sofa" /\ index[g].payload.price = 550
               /\ index[g].payload.colors = <<"gray">>

ColourKinds == {"different_color", "color_not_specified"}

\* the gray sofa is the one alternative, with a colour disadvantage; the
\* blue sofa is the one over-budget option, $349 over budget (+58%)
BlueSofaAnswer ==
    /\ response.perfect_matches = <<>>
    /\ Len(response.alternatives) = 1
    /\ LET gray == response.alternatives[1]
       IN  /\ gray.product.price = 550 /\ gray.product.colors = <<"gray">>
           /\ \E j \in DOMAIN gray.compromise.disadvantages :
                  gray.compromise.disadvantages[j].kind \in ColourKinds
    /\ Len(response.over_budget_options) = 1
    /\ LET blue == response.over_budget_options[1]
       IN  /\ blue.product.price = 949 /\ blue.product.colors = <<"blue">>
           /\ \E j \in DOMAIN blue.compromise.disadvantages :
                  blue.compromise.disadvantages[j] =
                      [kind |-> "over_budget", dollars |-> 349, percent |-> 58]

\* C13: for "blue sofa under 600" over a blue sofa at 949 and a gray sofa at
\* 550, the gray sofa is an alternative with a colour disadvantage and the
\* blue sofa an over-budget option with "$349 over budget (+58%)"
C13_BlueSofaUnder600 == BlueSofaCase => BlueSofaAnswer

C13_Witness == BlueSofaCase /\ BlueSofaAnswer

\* C14: two runs over the same catalog, both complete and with every
\* producer working, wrote for every item the same vector in every space
C14_ReindexingWritesSameVectors ==
    (Len(history) = 2 /\ ~Running
         /\ \A k \in 1..2 : history[k].outcome = "returned" /\ history[k].fault = "none") =>
        history[2].written = history[1].written

\* C15: a run whose product graph has no node or a single node (a catalog
\* of at most one product) got an empty embedding table, so it wrote no
\* graph vector
C15_NoEmbeddingsForTrivialGraph ==
    (run.pc = "returned" /\ run.size <= 1) =>
        \A k \in DOMAIN run.written : "graph" \notin DOMAIN run.written[k]

\* the stored point of a product id, as this process computes point ids
Stored(product_id) == PointId(product_id, server.seed)

\* the handler's reference item is stored and has no graph vector: the
\* product asked for (recommend_similar), the best text match
\* (fusion_recommend, whose fused order is the text order when no graph
\* result came in)
ReferenceWithoutGraphVector ==
    /\ request # NoRequest
    /\ server.ready /\ server.reachable
    /\ \/ /\ request.handler = "recommend_similar"
          /\ Stored(request.product_id) \in DOMAIN index
          /\ "graph" \notin DOMAIN index[Stored(request.product_id)].vector
       \/ /\ request.handler = "fusion_recommend"
          /\ searchLog # <<>> /\ searchLog[1].returned > 0
          /\ \A id \in DOMAIN index : "graph" \notin DOMAIN index[id].vector
          /\ \A id \in DOMAIN index : Stored(index[id].payload.product_id) = id

\* C16: with the reference item stored without a graph vector, the handler
\* answers normally and no graph search contributes results
C16_MissingGraphVectorIsNoError ==
    ReferenceWithoutGraphVector => response.status = 200 /\ GraphSearches = 0

\* the products a search_with_tradeoffs or fusion_recommend response carries,
\* as payload-like records, and the budget ceiling the handler extracted
ReturnedProducts ==
    IF request.handler = "search_with_tradeoffs"
    THEN {e.product : e \in Range(response.exact_matches) \cup Range(response.trade_offs)}
    ELSE {e.payload : e \in Range(response.products)}

ExtractedCeiling ==
    IF request.handler = "search_with_tradeoffs" THEN response.user_preferences.budget
    ELSE response.budget_limit

HardFiltered(ceiling) ==
    \A product \in ReturnedProducts :
        /\ ceiling # None => product.price <= ceiling
        /\ request.category # "all" => product.category = request.category

\* C17: every product search_with_tradeoffs or fusion_recommend returns is
\* priced at or below the extracted budget ceiling, if there is one, and of
\* the requested category, if it is not 'all'
C17_BudgetAndCategoryAreHardFilters ==
    (Handler("search_with_tradeoffs") \/ Handler("fusion_recommend")) =>
        HardFiltered(ExtractedCeiling)

(***************************************************************************)
(* The tracking endpoints of one API process                               *)
(***************************************************************************)
InitTrack ==
    /\ index = EmptyIndex
    /\ server \in {srv \in Servers : srv.ready /\ srv.reachable /\ srv.embedding_system}
    /\ request = NoRequest
    /\ response = NoResponse
    /\ searchLog = <<>>
    /\ run = IdleRun
    /\ history = <<>>
    /\ extraction = NoExtraction
    /\ NoTracking

\* POST /track
TrackUserEvent ==
    /\ clock < MaxEvents
    /\ \E req \in TrackEventRequests, raises \in BOOLEAN :
           LET event == UserEvent(req, clock)
               cache == track_event(user_activities_cache, event)
           IN /\ user_activities_cache' = cache
              /\ users' = _update_user_embedding_in_qdrant(cache, users, req.user_id,
                                                          server.seed, clock, raises)
              /\ request' = [handler |-> "track_user_event", user_id |-> req.user_id,
                             event_type |-> req.event_type]
              /\ response' = [status |-> 200, tracked |-> TRUE, user_id |-> req.user_id,
                              event_type |-> req.event_type, timestamp |-> event.timestamp]
    /\ clock' = clock + 1
    /\ UNCHANGED <<index, server, searchLog, run, history, extraction, calls>>

\* GET /users/{user_id}/activity
GetUserActivity ==
    /\ \E user_id \in UserIds, raises \in BOOLEAN :
           /\ request' = [handler |-> "get_user_activity", user_id |-> user_id]
           /\ response' = [status |-> 200,
                           summary |-> get_user_activity_summary(users, user_id,
                                                                 server.seed, raises)]
    /\ UNCHANGED <<index, server, searchLog, run, history, extraction, tracking>>

NextTrack == TrackUserEvent \/ GetUserActivity

SpecTrack == InitTrack /\ [][NextTrack]_vars

\* C18: handling a request writes no process-wide state: no handler changes
\* state of the process that another request can read (the module-level
\* event cache is such state: the next /track of the same user reads it).
C18_HandlersWriteNoProcessState ==
    [][user_activities_cache' = user_activities_cache]_vars

AttributeKinds == ColourKinds \cup {"missing_material"}

HasAttributeDisadvantage(e) ==
    \E j \in DOMAIN e.compromise.disadvantages :
        e.compromise.disadvantages[j].kind \in AttributeKinds

\* C19: in a smart_recommend response every product of perfect_matches has
\* no colour or material disadvantage and an empty disadvantages list, and
\* every product of alternatives has a colour or material disadvantage.
C19_TierMatchesCompromise ==
    SmartDone =>
        /\ \A e \in Range(response.perfect_matches) :
               ~HasAttributeDisadvantage(e) /\ e.compromise.disadvantages = <<>>
        /\ \A e \in Range(response.alternatives) :
               HasAttributeDisadvantage(e) /\ e.compromise.disadvantages # <<>>

\* the score of a scored product with no budget stated, in hundredths
ScoreWithoutBudget(e) ==
    analyze_compromises(e.product, [response.user_requirements EXCEPT !.budget = None],
                        e.product.score).compromise_score

\* the product is over the ceiling, says so in dollars and percent, and
\* loses percent/10 points (1000 * overage / ceiling hundredths)
OverBudgetExplained(e, budget) ==
    /\ e.product.price > budget
    /\ \E j \in DOMAIN e.compromise.disadvantages :
           e.compromise.disadvantages[j] =
               [kind |-> "over_budget", dollars |-> e.product.price - budget,
                percent |-> RoundDiv((e.product.price - budget) * 100, budget)]
    /\ e.compromise.compromise_score =
           RoundHundredths(ScoreWithoutBudget(e) * budget
                               - 1000 * (e.product.price - budget), budget)

\* C20: every product of over_budget_options is priced above the budget
\* ceiling, lists an over-budget disadvantage with the dollar and the percent
\* overage, and its score carries a penalty of the percent overage over 10.
C20_OverBudgetOptionsAreExplained ==
    SmartDone =>
        \A e \in Range(response.over_budget_options) :
            OverBudgetExplained(e, response.user_requirements.budget)

\* the advantage "$<dollars> under budget (<percent>% savings)" of a product
SavingsAdvantage(e, budget) ==
    [kind |-> "under_budget", dollars |-> budget - e.product.price,
     percent |-> RoundDiv((budget - e.product.price) * 100, budget)]

HasAdvantage(e, advantage) ==
    \E j \in DOMAIN e.compromise.advantages : e.compromise.advantages[j] = advantage

C22_SummaryFromCounts ==
    SmartDone =>
        \A e \in ScoredProducts :
            LET a == e.compromise.advantages
                d == e.compromise.disadvantages
                summary == e.compromise.summary
            IN  IF d = <<>>
                THEN /\ Len(a) >= 3 => summary.template = "Perfect match"
                     /\ Len(a) = 2 => summary.template = "Great match"
                     /\ Len(a) = 1 => summary.template = "Good match"
                ELSE /\ summary.template = "Trade-off"
                     /\ summary.first = a[1]
                     /\ summary.but = d[1]

\* the advantages analyze_compromises found: the returned list, unless that
\* is the placeholder "Matches your search criteria" of an empty list
FoundAdvantages(e) ==
    IF e.compromise.advantages = <<[kind |-> "matches_your_search_criteria"]>>
    THEN <<>>
    ELSE e.compromise.advantages

\* C22 as amended: the summary follows from the counts of the advantages
\* found and of the disadvantages: without disadvantages "Perfect match"
\* (three or more), "Great match" (two), "Good match" (one) or "Solid option
\* that meets your needs" (none); with a disadvantage "Trade-off: <first
\* advantage>, but <first disadvantage>", where "matches your search" stands
\* in for a missing first advantage.
C22_SummaryFromFoundCounts ==
    SmartDone =>
        \A e \in ScoredProducts :
            LET a == FoundAdvantages(e)
                d == e.compromise.disadvantages
                summary == e.compromise.summary
            IN  IF d = <<>>
                THEN /\ Len(a) >= 3 =>
                            summary = [template |-> "Perfect match", first |-> a[1],
                                       second |-> a[2], more |-> Len(a) - 2]
                     /\ Len(a) = 2 =>
                            summary = [template |-> "Great match", first |-> a[1],
                                       second |-> a[2]]
                     /\ Len(a) = 1 =>
                            summary = [template |-> "Good match", first |-> a[1]]
                     /\ Len(a) = 0 => summary = [template |-> "Solid option"]
                ELSE /\ summary.template = "Trade-off"
                     /\ summary.first = IF a # <<>> THEN a[1]
                                        ELSE [kind |-> "matches_your_search"]
                     /\ summary.but = d[1]

SummaryTemplates == {e.compromise.summary.template : e \in ScoredProducts}

\* a response scoring a product without advantage and without disadvantage:
\* its returned advantages are the placeholder, its summary "Solid option"
C22_Witness ==
    /\ SmartDone
    /\ \E e \in ScoredProducts :
           /\ e.compromise.disadvantages = <<>>
           /\ FoundAdvantages(e) = <<>>
           /\ e.compromise.summary.template = "Solid option"

\* a response scoring a product with a disadvantage and no advantage
C22_TradeoffWithoutAdvantage ==
    /\ SmartDone
    /\ \E e \in ScoredProducts :
           /\ e.compromise.summary.template = "Trade-off"
           /\ FoundAdvantages(e) = <<>>

\* responses with each of the three counted templates
C22_CountedTemplates ==
    /\ SmartDone
    /\ {"Perfect match", "Great match", "Good match"} \subseteq SummaryTemplates

SmartTiers == {response.perfect_matches, response.alternatives,
               response.over_budget_options}

\* the tier is in non-increasing order of compromise score
OrderedByScore(tier) ==
    \A i, j \in DOMAIN tier :
        i < j => tier[i].compromise.compromise_score >= tier[j].compromise.compromise_score

\* the part of a compromise score that is not 50 x similarity, in hundredths
AttributePoints(e) == e.compromise.compromise_score - SimilarityWeight * e.product.score

\* C23 as stated: each tier of a smart_recommend response is in
\* non-increasing order of compromise score, and a candidate with higher
\* similarity stands before every less similar candidate of its tier.
C23_TiersOrderedAndSimilarityFirst ==
    SmartDone =>
        \A tier \in SmartTiers :
            /\ OrderedByScore(tier)
            /\ \A i, j \in DOMAIN tier :
                   tier[i].product.score > tier[j].product.score => i < j

\* C23 as amended: each tier is in non-increasing order of compromise score,
\* and of two candidates of a tier with the same attribute points (budget,
\* colour, material, style, size, feature and extra-feature points) the more
\* similar one stands first.
C23_TiersOrderedSimilarityBreaksTies ==
    SmartDone =>
        \A tier \in SmartTiers :
            /\ OrderedByScore(tier)
            /\ \A i, j \in DOMAIN tier :
                   (/\ tier[i].product.score > tier[j].product.score
                    /\ AttributePoints(tier[i]) = AttributePoints(tier[j])) => i < j

\* a tier in which a less similar candidate stands before a more similar one
\* on the strength of its attribute points, and in which two candidates with
\* equal attribute points stand in similarity order
C23_Witness ==
    /\ SmartDone
    /\ \E tier \in SmartTiers :
           /\ \E i, j \in DOMAIN tier :
                  i < j /\ tier[i].product.score < tier[j].product.score
           /\ \E i, j \in DOMAIN tier :
                  /\ i < j /\ tier[i].product.score > tier[j].product.score
                  /\ AttributePoints(tier[i]) = AttributePoints(tier[j])

TradeoffsDone == Handler("search_with_tradeoffs")

\* C24: in a search_with_tradeoffs response every search result is in exactly
\* one of exact_matches and trade_offs; it is in trade_offs if and only if
\* its analysis has a 'loses' entry (is_compromise); total_results is the sum
\* of the two lengths; each score is the number of gains minus the number of
\* loses.
C24_ResultsSplitByLoses ==
    TradeoffsDone =>
        /\ TierIds(response.exact_matches) \cap TierIds(response.trade_offs) = {}
        /\ Cardinality(TierIds(response.exact_matches) \cup TierIds(response.trade_offs))
               = searchLog[1].returned
        /\ response.total_results
               = Len(response.exact_matches) + Len(response.trade_offs)
        /\ response.total_results = searchLog[1].returned
        /\ \A e \in Range(response.exact_matches) :
               e.tradeoff_analysis.loses = <<>> /\ ~e.tradeoff_analysis.is_compromise
        /\ \A e \in Range(response.trade_offs) :
               e.tradeoff_analysis.loses # <<>> /\ e.tradeoff_analysis.is_compromise
        /\ \A e \in Range(response.exact_matches) \cup Range(response.trade_offs) :
               e.tradeoff_analysis.score
                   = Len(e.tradeoff_analysis.gains) - Len(e.tradeoff_analysis.loses)

\* a response with exact matches and trade-offs, one of the trade-offs
\* gaining at least as much as it loses
C24_Witness ==
    /\ TradeoffsDone
    /\ response.exact_matches # <<>>
    /\ \E e \in Range(response.trade_offs) : e.tradeoff_analysis.score >= 0

\* C25: extract_preferences reports as colour the colour keywords of the
\* fixed vocabulary that occur in the query, and reports no colour only
\* when none of them occurs.
C25_ColourKeywordsAreReported ==
    extraction.done =>
        LET requested == KeywordsIn(color_keywords, extraction.query)
        IN  IF requested = <<>>
            THEN extraction.preferences.color = Nil
            ELSE /\ extraction.preferences.color # Nil
                 /\ extraction.preferences.color = requested

AllBudgetKinds == {"under_budget", "within_budget", "over_budget"}

\* C26: for a query that states no budget, smart_recommend returns no
\* over-budget option and no compromise with a budget advantage or a budget
\* disadvantage.
C26_NoBudgetNoBudgetTerms ==
    (SmartDone /\ request.query.phrase = "none") =>
        /\ response.user_requirements.budget = None
        /\ response.over_budget_options = <<>>
        /\ \A e \in ScoredProducts :
               \A items \in {e.compromise.advantages, e.compromise.disadvantages} :
                   \A j \in DOMAIN items : items[j].kind \notin AllBudgetKinds

\* a response to a query without budget that scores the most expensive sofa
C26_Witness ==
    /\ SmartDone /\ request.query.phrase = "none"
    /\ \E e \in ScoredProducts : e.product.price = 949
    /\ Len(response.perfect_matches) + Len(response.alternatives) >= 3

\* the request of the current state, as the handler received it
CurrentRequest ==
    [query |-> request.query, category |-> request.category,
     limit |-> request.limit, profile |-> request.profile]

\* the scored candidates of one tier before the sort and the cut
TierCandidates(tier) ==
    Range(TierList(SmartCandidates(index, CurrentRequest),
                   response.user_requirements, tier))

\* the returned tier holds at most cap products, all of them candidates of
\* the tier, and no candidate left out scores higher than one returned
KeepsBest(returned, tier, cap) ==
    /\ Len(returned) <= cap
    /\ Range(returned) \subseteq TierCandidates(tier)
    /\ Len(returned) = Min(cap, Cardinality(TierCandidates(tier)))
    /\ \A out \in TierCandidates(tier) \ Range(returned) :
           \A in \in Range(returned) :
               out.compromise.compromise_score <= in.compromise.compromise_score

RECURSIVE Concat(_)
\* the batches of a run laid end to end
Concat(batches) ==
    IF batches = <<>> THEN <<>> ELSE Head(batches) \o Concat(Tail(batches))

\* the point ids of the first n catalog items of the run, in catalog order
CatalogIds(n) == [i \in 1..n |-> BuildPoint(i, run.size, run.cfg).id]

Aborted == run.pc = "raised" /\ run.tries = AllFailed

\* the points of the run's stored batches are in the collection as built
StoredAsBuilt ==
    \A i \in 1..Len(Concat(run.batches)) :
        LET point == BuildPoint(i, run.size, run.cfg)
        IN  /\ point.id \in DOMAIN index
            /\ index[point.id] = [vector |-> point.vector, payload |-> point.payload]

\* what the run stored is a strict prefix of the catalog
StoredStrictPrefix ==
    /\ Len(Concat(run.batches)) < run.size
    /\ Concat(run.batches) = CatalogIds(Len(Concat(run.batches)))

\* C29 as stated: after a run aborted on an exhausted batch, the points of
\* its earlier batches are stored and the index holds exactly the items of
\* the batches that succeeded, a strict prefix of the catalog.
C29_AbortLeavesExactlyStoredBatches ==
    Aborted =>
        /\ StoredAsBuilt
        /\ StoredStrictPrefix
        /\ DOMAIN index = Range(Concat(run.batches))

\* C29 as amended: after a run aborted on an exhausted batch, the points of
\* its earlier batches are stored, they are a strict prefix of the catalog,
\* and the index holds them together with the points stored by earlier
\* runs (exactly them when the collection was empty at the start of the run).
C29_AbortKeepsStoredBatches ==
    Aborted =>
        /\ StoredAsBuilt
        /\ StoredStrictPrefix
        /\ DOMAIN index = UNION {history[k].ids : k \in DOMAIN history}
        /\ history[Len(history)].ids = Range(Concat(run.batches))
        /\ run.points_before = 0 => DOMAIN index = Range(Concat(run.batches))

\* a run aborted on its second batch, after its first batch was stored
\* over the points of an earlier complete run
C29_Witness ==
    /\ Aborted
    /\ Len(run.batches) = 1
    /\ Len(history) = 2 /\ history[1].outcome = "returned"
    /\ run.points_before > batch_size

\* a first run aborted on its third batch: the collection holds six points
C29_FirstRunAborted ==
    /\ Aborted
    /\ Len(history) = 1
    /\ Len(run.batches) = 2
    /\ Cardinality(DOMAIN index) = 2 * batch_size

(***************************************************************************)
(* POST /track handled by the threads of the worker pool: track_user_event *)
(* is a synchronous handler, so two calls run concurrently, each through   *)
(* the statements of track_event and _update_user_embedding_in_qdrant      *)
(***************************************************************************)
InitConcurrentTrack == InitTrack

Busy(t) == calls[t].pc \notin {"idle", "done"}

\* the concurrent calls are those of one user
SameUserRequests == {req \in TrackEventRequests : req.user_id = 1}

\* event = UserEvent(...); user_activities_cache[user_id].append(event)
AppendEvent(t) ==
    /\ ~Busy(t)
    /\ clock < MaxEvents
    /\ \E req \in SameUserRequests :
           LET event == UserEvent(req, clock)
           IN  /\ user_activities_cache' = track_event(user_activities_cache, event)
               /\ calls' = [calls EXCEPT ![t] =
                               [pc |-> "appended", raised |-> calls[t].raised,
                                user_id |-> req.user_id, event_type |-> req.event_type,
                                timestamp |-> event.timestamp]]
    /\ clock' = clock + 1
    /\ UNCHANGED <<index, server, request, response, searchLog, run, history,
                   extraction, users>>

\* events = cache.get(user_id); the profile_texts loop; encode_text, which
\* may raise (the exception is printed and the update abandoned)
EncodeProfile(t) ==
    /\ calls[t].pc = "appended"
    /\ LET events == user_activities_cache[calls[t].user_id]
           profile_texts == ProfileTexts(LastN(events, ProfileWindow))
       IN  IF events = <<>> \/ profile_texts = <<>>
           THEN calls' = [calls EXCEPT ![t].pc = "returning"]
           ELSE \E raises \in BOOLEAN :
                    calls' = [calls EXCEPT ![t] =
                                 IF raises
                                 THEN [@ EXCEPT !.pc = "returning", !.raised = TRUE]
                                 ELSE [pc |-> "encoded", raised |-> @.raised,
                                       user_id |-> @.user_id, event_type |-> @.event_type,
                                       timestamp |-> @.timestamp,
                                       profile_texts |-> profile_texts]]
    /\ UNCHANGED <<index, server, request, response, searchLog, run, history,
                   extraction, user_activities_cache, users, clock>>

\* payload = {...}: total_events and recent_activity are read from the
\* cached list as it is now
BuildPayloadOfUser(t) ==
    /\ calls[t].pc = "encoded"
    /\ calls' = [calls EXCEPT ![t] =
                    [pc |-> "built", raised |-> @.raised,
                     user_id |-> @.user_id, event_type |-> @.event_type,
                     timestamp |-> @.timestamp, profile_texts |-> @.profile_texts,
                     payload |-> UserPayload(user_activities_cache[@.user_id],
                                             @.user_id, clock)]]
    /\ UNCHANGED <<index, server, request, response, searchLog, run, history,
                   extraction, user_activities_cache, users, clock>>

\* qdrant_client.upsert(collection_name='users', points=[...]), which may
\* raise (printed)
UpsertUserPoint(t) ==
    /\ calls[t].pc = "built"
    /\ \E raises \in BOOLEAN :
           IF raises
           THEN /\ users' = users
                /\ calls' = [calls EXCEPT ![t] =
                                [pc |-> "returning", raised |-> TRUE,
                                 user_id |-> @.user_id, event_type |-> @.event_type,
                                 timestamp |-> @.timestamp]]
           ELSE /\ users' = Upsert(users, <<UserPoint(calls[t].user_id, server.seed,
                                                     calls[t].profile_texts,
                                                     calls[t].payload)>>)
                /\ calls' = [calls EXCEPT ![t] =
                                [pc |-> "returning", raised |-> @.raised,
                                 user_id |-> @.user_id, event_type |-> @.event_type,
                                 timestamp |-> @.timestamp]]
    /\ UNCHANGED <<index, server, request, response, searchLog, run, history,
                   extraction, user_activities_cache, clock>>

\* return {"status": "tracked", ...}
ReturnTracked(t) ==
    /\ calls[t].pc = "returning"
    /\ request' = [handler |-> "track_user_event", user_id |-> calls[t].user_id,
                   event_type |-> calls[t].event_type]
    /\ response' = [status |-> 200, tracked |-> TRUE, user_id |-> calls[t].user_id,
                    event_type |-> calls[t].event_type, timestamp |-> calls[t].timestamp]
    /\ calls' = [calls EXCEPT ![t] = [pc |-> "done", raised |-> @.raised]]
    /\ UNCHANGED <<index, server, searchLog, run, history, extraction,
                   user_activities_cache, users, clock>>

NextConcurrentTrack ==
    \E t \in Threads :
        \/ AppendEvent(t)
        \/ EncodeProfile(t)
        \/ BuildPayloadOfUser(t)
        \/ UpsertUserPoint(t)
        \/ ReturnTracked(t)

SpecConcurrentTrack == InitConcurrentTrack /\ [][NextConcurrentTrack]_vars

\* every call has returned, and none of them met an exception
AllCallsCompleted ==
    \A t \in Threads : ~Busy(t) /\ ~calls[t].raised

\* C30: when all track_event calls have completed, the stored point of a
\* user carries as total_events the number of events cached for that user.
C30_StoredPointReflectsCache ==
    AllCallsCompleted =>
        \A user_id \in UserIds :
            LET point_id == _get_user_point_id(user_id, server.seed)
            IN  point_id \in DOMAIN users =>
                    users[point_id].payload.total_events
                        = Len(user_activities_cache[user_id])

====
